---------------------------- MODULE Spec2Model ----------------------------
(***************************************************************************)
(* A model of rsp_trace_server: a GDB Remote Serial Protocol server that   *)
(* replays a recorded CPU trace forwards and backwards.                    *)
(*                                                                         *)
(* Representation of the Python values:                                    *)
(*   - a str is a sequence of one-character strings, "p5" is <<"p","5">>;  *)
(*     the characters are ASCII, so that a str and the bytes that encode   *)
(*     it are the same sequence; the vertical tab, chr(11), which has no   *)
(*     escape in a string, is written as the character itself;             *)
(*   - an int that holds a machine word (a register, the PC, a breakpoint  *)
(*     address) is kept as its canonical lower-case hexadecimal numeral    *)
(*     without leading zeros (0 is <<>>), after "-" when it is negative:   *)
(*     Python ints are unbounded and 64-bit words do not fit the model     *)
(*     checker's integers;                                                 *)
(*   - a small int (a register number, a length, a memory address, a byte, *)
(*     a thread id) is an integer;                                         *)
(*   - a dict with optional keys (a trace record) is a function whose      *)
(*     DOMAIN holds the keys present; the "rw" dict keeps its insertion    *)
(*     order as a sequence of <<name, value>> pairs with distinct names;   *)
(*   - list indices are 0-based in the source and 1-based here.            *)
(***************************************************************************)
EXTENDS Integers, Sequences, FiniteSets, TLC

VARIABLES
    trace,              \* MinimalRspServer.trace
    rev_trace,          \* MinimalRspServer.rev_trace
    trace_idx,          \* MinimalRspServer.trace_idx
    breakpoints,        \* MinimalRspServer.breakpoints
    cont_thread,        \* MinimalRspServer.cont_thread
    state_query_thread, \* MinimalRspServer.state_query_thread
    registers,          \* CpuState.registers
    memory,             \* CpuState.memory
    running,            \* CpuState.running
    conn,               \* start: "listening" in accept, "open" inside the one
                        \* handle_client call, "closed" after it; in the
                        \* accept loop "started" after a thread was started
                        \* and "done" after the loop
    clients,            \* the connections whose handle_client loop is running
    client,             \* the connection whose loop took the last turn
    stream,             \* _recv_packet: the bytes the last turn read
    command,            \* handle_client: the payload last received
    checksum_ok,        \* handle_client: whether its checksum matched
    response,           \* handle_client: the reply to it (None: no reply)
    sent,               \* _send: the strings the last turn wrote to the socket
    received,           \* the number of turns of handle_client loops so far
    alone,              \* for each connection, the state of a server that
                        \* received the packets of that connection only
    thread              \* for each connection that has a thread of its own,
                        \* the statement the thread is at and its locals

vars == <<trace, rev_trace, trace_idx, breakpoints, cont_thread,
          state_query_thread, registers, memory, running, conn, clients,
          client, stream, command, checksum_ok, response, sent, received,
          alone, thread>>

\* the mutable fields of the server and of its CpuState
cpu_vars == <<rev_trace, trace_idx, breakpoints, cont_thread,
              state_query_thread, registers, memory, running>>

----------------------------------------------------------------------------
(* Python str and int primitives *)

None == <<"None">>

HexLower == <<"0","1","2","3","4","5","6","7","8","9","a","b","c","d","e","f">>
DecChars == {"0","1","2","3","4","5","6","7","8","9"}

\* the value of a character of [0-9a-fA-F]
HexValue ==
    ("0" :> 0) @@ ("1" :> 1) @@ ("2" :> 2) @@ ("3" :> 3) @@ ("4" :> 4) @@
    ("5" :> 5) @@ ("6" :> 6) @@ ("7" :> 7) @@ ("8" :> 8) @@ ("9" :> 9) @@
    ("a" :> 10) @@ ("b" :> 11) @@ ("c" :> 12) @@ ("d" :> 13) @@ ("e" :> 14) @@
    ("f" :> 15) @@ ("A" :> 10) @@ ("B" :> 11) @@ ("C" :> 12) @@ ("D" :> 13) @@
    ("E" :> 14) @@ ("F" :> 15)

HexChars == DOMAIN HexValue

HexVal(ch) == HexValue[ch]

\* a sequence given as a function, as a tuple
Tuple(f) == SubSeq(f, 1, Len(f))

Min(a, b) == IF a < b THEN a ELSE b

Max(a, b) == IF a > b THEN a ELSE b

\* s[i:j] for 0 <= i, 0 <= j (Python clamps both ends to len(s))
Slice(s, i, j) == SubSeq(s, i + 1, Min(j, Len(s)))

\* s.startswith(p)
StartsWith(s, p) == Len(s) >= Len(p) /\ SubSeq(s, 1, Len(p)) = p

\* int(s, base) for base 10 or 16 and an ASCII string s: the sign and the
\* digits of the literal, or ok = FALSE where int() raises ValueError. The
\* literal is s without the white space at its ends (the blank and the
\* characters 9 to 13: tab, line feed, vertical tab, form feed, carriage
\* return), an optional sign, for base 16 an optional 0x or 0X, and digits
\* that single underscores may separate (one may follow the 0x); a string
\* of digits and nothing else is its own literal.
ParseInt(s, base) ==
    LET digits == IF base = 16 THEN HexChars ELSE DecChars
        space == {" ", "\t", "\n", "", "\f", "\r"}
        literal(lit, neg) ==
            [ok |-> /\ lit # <<>>
                    /\ lit[1] \in digits
                    /\ lit[Len(lit)] \in digits
                    /\ \A k \in 1..Len(lit) :
                          \/ lit[k] \in digits
                          \/ lit[k] = "_" /\ k > 1 /\ lit[k - 1] # "_",
             neg |-> neg,
             digits |-> SelectSeq(lit, LAMBDA ch : ch # "_")]
        unsigned(mag, neg) ==
            literal(IF base = 16 /\ Len(mag) >= 2 /\ mag[1] = "0" /\ mag[2] \in {"x", "X"}
                    THEN IF Len(mag) >= 3 /\ mag[3] = "_"
                         THEN SubSeq(mag, 4, Len(mag))
                         ELSE SubSeq(mag, 3, Len(mag))
                    ELSE mag,
                    neg)
        stripped(body) ==
            unsigned(IF body # <<>> /\ body[1] \in {"-", "+"} THEN Tail(body) ELSE body,
                     body # <<>> /\ body[1] = "-")
        strip(inked) ==
            stripped(IF inked = {} THEN <<>>
                     ELSE SubSeq(s, CHOOSE k \in inked : \A j \in inked : k <= j,
                                    CHOOSE k \in inked : \A j \in inked : k >= j))
    IN  IF s # <<>> /\ \A k \in 1..Len(s) : s[k] \in digits
        THEN [ok |-> TRUE, neg |-> FALSE, digits |-> s]
        ELSE strip({k \in 1..Len(s) : s[k] \notin space})

\* the value of a string of hexadecimal digits, for a small value
RECURSIVE HexToNat(_)
HexToNat(digits) ==
    IF digits = <<>> THEN 0
    ELSE 16 * HexToNat(SubSeq(digits, 1, Len(digits) - 1))
         + HexVal(digits[Len(digits)])

\* int(s, 16) succeeds
IsHexStr(s) == ParseInt(s, 16).ok

\* int(s, 16) for a small value
hexstr_to_int(hex_str) ==
    LET signed(lit, magnitude) == IF lit.neg THEN 0 - magnitude ELSE magnitude
        value(lit) == signed(lit, HexToNat(lit.digits))
    IN  value(ParseInt(hex_str, 16))

\* the value of a string of decimal digits
RECURSIVE DecToNat(_)
DecToNat(s) ==
    IF s = <<>> THEN 0
    ELSE 10 * DecToNat(SubSeq(s, 1, Len(s) - 1)) + HexVal(s[Len(s)])

\* int(s) succeeds
IsDecimal(s) == ParseInt(s, 10).ok

\* int(s) for a small value
DecToInt(s) ==
    LET signed(lit, magnitude) == IF lit.neg THEN 0 - magnitude ELSE magnitude
        value(lit) == signed(lit, DecToNat(lit.digits))
    IN  value(ParseInt(s, 10))

\* str(n) for a small int
RECURSIVE NatToDec(_)
NatToDec(n) ==
    IF n < 10 THEN <<HexLower[n + 1]>>
    ELSE Append(NatToDec(n \div 10), HexLower[(n % 10) + 1])

IntToDec(n) == IF n < 0 THEN <<"-">> \o NatToDec(0 - n) ELSE NatToDec(n)

\* a word is the canonical numeral of its magnitude (lower case, no leading
\* zero, <<>> for 0), after a "-" when it is negative
StripZeros(s) ==
    IF \A k \in 1..Len(s) : s[k] = "0" THEN <<>>
    ELSE SubSeq(s, CHOOSE k \in 1..Len(s) :
                       s[k] # "0" /\ \A j \in 1..(k - 1) : s[j] = "0",
                Len(s))

\* int(s, 16) for a word
IntOf(hex_str) ==
    LET signed(lit, magnitude) ==
            IF lit.neg /\ magnitude # <<>> THEN <<"-">> \o magnitude ELSE magnitude
        value(lit) ==
            signed(lit, StripZeros(Tuple([k \in 1..Len(lit.digits) |->
                                             HexLower[HexVal(lit.digits[k]) + 1]])))
    IN  value(ParseInt(hex_str, 16))

\* f"{value:016x}" for a word: the sign counts in the width of 16
Zero16 == <<"0","0","0","0","0","0","0","0","0","0","0","0","0","0","0","0">>

Format016x(value) ==
    IF value # <<>> /\ value[1] = "-"
    THEN <<"-">> \o SubSeq(Zero16, 1, 16 - Len(value)) \o Tail(value)
    ELSE SubSeq(Zero16, 1, 16 - Len(value)) \o value

\* f"{byte:02x}" for -256 < byte < 256: the sign counts in the width of 2
Format02x(byte) ==
    IF byte < 0
    THEN <<"-">> \o (IF 0 - byte < 16 THEN <<HexLower[(0 - byte) + 1]>>
                     ELSE <<HexLower[((0 - byte) \div 16) + 1],
                            HexLower[((0 - byte) % 16) + 1]>>)
    ELSE <<HexLower[(byte \div 16) + 1], HexLower[(byte % 16) + 1]>>

\* "".join(f"{data_byte:02x}" for data_byte in data_arr)
RECURSIVE FormatBytes(_)
FormatBytes(data_arr) ==
    IF data_arr = <<>> THEN <<>>
    ELSE Format02x(Head(data_arr)) \o FormatBytes(Tail(data_arr))

----------------------------------------------------------------------------
(* rsp_utils.py *)

\* the ASCII characters from " " (32) to "_" (95), from "a" (97) to "~"
\* (126), and the white space from tab (9) to carriage return (13)
AsciiLow ==
    << " ","!","\"","#","$","%","&","'","(",")","*","+",",","-",".","/",
       "0","1","2","3","4","5","6","7","8","9",":",";","<","=",">","?",
       "@","A","B","C","D","E","F","G","H","I","J","K","L","M","N","O",
       "P","Q","R","S","T","U","V","W","X","Y","Z","[","\\","]","^","_" >>

AsciiHigh ==
    << "a","b","c","d","e","f","g","h","i","j","k","l","m","n","o","p",
       "q","r","s","t","u","v","w","x","y","z","{","|","}","~" >>

\* ord(ch): the byte that encodes an ASCII character
Ord ==
    LET AsciiSpace == <<"\t", "\n", "", "\f", "\r">>
    IN  [ch \in {AsciiLow[i] : i \in 1..Len(AsciiLow)}
                 \cup {AsciiHigh[i] : i \in 1..Len(AsciiHigh)}
                 \cup {AsciiSpace[i] : i \in 1..Len(AsciiSpace)} |->
            IF \E i \in 1..Len(AsciiLow) : AsciiLow[i] = ch
            THEN 31 + (CHOOSE i \in 1..Len(AsciiLow) : AsciiLow[i] = ch)
            ELSE IF \E i \in 1..Len(AsciiHigh) : AsciiHigh[i] = ch
            THEN 96 + (CHOOSE i \in 1..Len(AsciiHigh) : AsciiHigh[i] = ch)
            ELSE 8 + (CHOOSE i \in 1..Len(AsciiSpace) : AsciiSpace[i] = ch)]

\* sum(b[lo..hi]) for a string of bytes, by halves
RECURSIVE SumRange(_, _, _)
SumRange(b, lo, hi) ==
    IF lo > hi THEN 0
    ELSE IF lo = hi THEN Ord[b[lo]]
    ELSE SumRange(b, lo, (lo + hi) \div 2) + SumRange(b, (lo + hi) \div 2 + 1, hi)

\* sum(b[i:]) for a string of bytes
SumFrom(b, i) == SumRange(b, i, Len(b))

\* get_bytes_checksum
get_bytes_checksum(b) == SumFrom(b, 1) % 256

\* get_checksum that counts the "$" of the frame too
get_checksum_mut(data) == (Ord["$"] + SumFrom(data, 1)) % 256

\* get_checksum
get_checksum(data) == SumFrom(data, 1) % 256

\* the assertion of swap_endianess
SwapOk(hex_str) == Len(hex_str) % 2 = 0

\* 'ABCDEF' -> 'EFCDAB': the byte pairs in reverse order
RECURSIVE swap_endianess(_)
swap_endianess(hex_str) ==
    IF Len(hex_str) <= 2 THEN hex_str
    ELSE SubSeq(hex_str, Len(hex_str) - 1, Len(hex_str))
         \o swap_endianess(SubSeq(hex_str, 1, Len(hex_str) - 2))

----------------------------------------------------------------------------
(* cpu_state.py, riscv_cpu_state.py *)

UNSET_MEM_VALUE == 202

PC_REG == 32

NUM_REGISTERS == PC_REG + 1

\* CpuState.pc
pc(regs) == regs[PC_REG]

\* CpuState.set_pc
set_pc(regs, value) == [regs EXCEPT ![PC_REG] = value]

\* CpuState.set_mem: the assertions
set_mem_ok(hexstr, length) ==
    /\ (length < 0 \/ length = Len(hexstr) \div 2)
    /\ Len(hexstr) % 2 = 0

\* CpuState.set_mem: the byte stored for offset offs is hexstr[offs : offs + 2]
set_mem(mem, hex_addr, hexstr) ==
    LET addr == hexstr_to_int(hex_addr)
        written == {addr + offs : offs \in 0..(Len(hexstr) \div 2 - 1)}
    IN  [a \in (DOMAIN mem) \cup written |->
            IF a \in written
            THEN hexstr_to_int(Slice(hexstr, a - addr, a - addr + 2))
            ELSE mem[a]]

\* CpuState.get_mem: one byte, the sentinel when the address is not a key
mem_byte(mem, a) == IF a \in DOMAIN mem THEN mem[a] ELSE UNSET_MEM_VALUE

\* CpuState.get_mem
get_mem(mem, hex_addr, num_bytes) ==
    LET addr == hexstr_to_int(hex_addr)
    IN  FormatBytes([k \in 1..num_bytes |-> mem_byte(mem, addr + k - 1)])

\* CpuState.update: the register writes rw[i..], with the reverse entries.
\* registers is a list: an index from -NUM_REGISTERS to -1 counts from the
\* end, one outside the list raises IndexError, and a name int() rejects
\* raises ValueError (exc, with the registers written so far).
RECURSIVE update_rw(_, _, _, _)
update_rw(regs, rw, i, rev_rw) ==
    IF i > Len(rw) THEN [registers |-> regs, rev_rw |-> rev_rw, exc |-> FALSE]
    ELSE LET reg == rw[i][1]
             value == rw[i][2]
             raised == [registers |-> regs, rev_rw |-> rev_rw, exc |-> TRUE]
             write(slot) ==
                 update_rw([regs EXCEPT ![slot] = value], rw, i + 1,
                           Append(rev_rw, <<reg, regs[slot]>>))
             index(reg_number) ==
                 IF 0 <= reg_number /\ reg_number < NUM_REGISTERS
                 THEN write(reg_number)
                 ELSE IF 0 - NUM_REGISTERS <= reg_number /\ reg_number < 0
                 THEN write(reg_number + NUM_REGISTERS)
                 ELSE raised
         IN  IF StartsWith(reg, <<"x">>)
             THEN IF IsDecimal(Tail(reg)) THEN index(DecToInt(Tail(reg)))
                  ELSE raised
             ELSE update_rw(regs, rw, i + 1, rev_rw)

\* CpuState.update: the memory writes mw[i..], with the reverse entries.
\* get_mem and set_mem raise ValueError on an address that int() rejects,
\* set_mem fails its assertion on data of odd length, and raises
\* ValueError at the first slice hexstr[offs : offs + 2] that int()
\* rejects, after it stored the bytes before it (exc, with the memory
\* written so far).
RECURSIVE update_mw(_, _, _, _)
update_mw(mem, mw, i, rev_mw) ==
    IF i > Len(mw) THEN [memory |-> mem, rev_mw |-> rev_mw, exc |-> FALSE]
    ELSE LET mem_addr == mw[i][1]
             hex_value == mw[i][2]
             num_bytes == Len(hex_value) \div 2
             raised(m) == [memory |-> m, rev_mw |-> rev_mw, exc |-> TRUE]
             stored(bad) ==
                 IF bad = {}
                 THEN update_mw(set_mem(mem, mem_addr, hex_value), mw, i + 1,
                                Append(rev_mw, <<mem_addr,
                                                 get_mem(mem, mem_addr, num_bytes)>>))
                 ELSE raised(set_mem(mem, mem_addr,
                                     SubSeq(hex_value, 1,
                                            2 * (CHOOSE o \in bad : \A b \in bad : o <= b))))
         IN  IF ~IsHexStr(mem_addr) \/ Len(hex_value) % 2 # 0 THEN raised(mem)
             ELSE stored({offs \in 0..(num_bytes - 1) :
                             ~IsHexStr(Slice(hex_value, offs, offs + 2))})

\* CpuState.update: the new registers and memory, and the reverse trace
\* entry; trace_entry["pc"] raises KeyError on an entry without "pc",
\* before anything is written, and when a register write raises (exc) no
\* memory write is made
update(regs, mem, trace_entry) ==
    LET has_rw == "rw" \in DOMAIN trace_entry
        has_mw == "mw" \in DOMAIN trace_entry
        keys == {"pc"} \cup (IF has_rw THEN {"rw"} ELSE {})
                       \cup (IF has_mw THEN {"mw"} ELSE {})
        updated(r, m) ==
            [registers |-> r.registers,
             memory |-> IF r.exc THEN mem ELSE m.memory,
             rev |-> [key \in keys |->
                        IF key = "pc" THEN pc(regs)
                        ELSE IF key = "rw" THEN r.rev_rw
                        ELSE m.rev_mw],
             exc |-> r.exc \/ m.exc]
    IN  IF "pc" \notin DOMAIN trace_entry
        THEN [registers |-> regs, memory |-> mem, rev |-> [key \in {"pc"} |-> pc(regs)],
              exc |-> TRUE]
        ELSE updated(IF has_rw
                     THEN update_rw(set_pc(regs, trace_entry["pc"]), trace_entry["rw"],
                                    1, <<>>)
                     ELSE [registers |-> set_pc(regs, trace_entry["pc"]),
                           rev_rw |-> <<>>, exc |-> FALSE],
                     IF has_mw
                     THEN update_mw(mem, trace_entry["mw"], 1, <<>>)
                     ELSE [memory |-> mem, rev_mw |-> <<>>, exc |-> FALSE])

----------------------------------------------------------------------------
(* minimal_rsp_server.py: the replay engine.  The operators below take and *)
(* return the mutable state of the server and of its CpuState as a record. *)

State ==
    [registers |-> registers, memory |-> memory, running |-> running,
     trace_idx |-> trace_idx, rev_trace |-> rev_trace,
     breakpoints |-> breakpoints, cont_thread |-> cont_thread,
     state_query_thread |-> state_query_thread, trace |-> trace]

S05 == <<"S","0","5">>
W00 == <<"W","0","0">>
OK == <<"O","K">>

\* a returned reply, and a raised exception (handle_client catches it)
Ret(st, reply) == [st |-> st, reply |-> reply, exc |-> FALSE]
Raise(st) == [st |-> st, reply |-> None, exc |-> TRUE]

\* MinimalRspServer.stop
stop(st) == [st EXCEPT !.running = FALSE]

\* _step_inner that does not record the reverse entry
_step_inner_mut(st) ==
    IF st.trace_idx >= Len(st.trace)
    THEN [st |-> stop(st), ok |-> FALSE, exc |-> FALSE]
    ELSE LET entry == st.trace[st.trace_idx + 1]
             u == update(st.registers, st.memory, entry)
         IN  [st |-> [st EXCEPT !.registers = u.registers,
                                !.memory = u.memory,
                                !.trace_idx = st.trace_idx + 1],
              ok |-> TRUE, exc |-> FALSE]

\* _step_inner that writes the reverse entry over the record it replayed
_step_inner_inplace_mut(st) ==
    IF st.trace_idx >= Len(st.trace)
    THEN [st |-> stop(st), ok |-> FALSE, exc |-> FALSE]
    ELSE LET entry == st.trace[st.trace_idx + 1]
             u == update(st.registers, st.memory, entry)
         IN  [st |-> [st EXCEPT !.registers = u.registers,
                                !.memory = u.memory,
                                !.rev_trace[st.trace_idx + 1] = u.rev,
                                !.trace[st.trace_idx + 1] = u.rev,
                                !.trace_idx = st.trace_idx + 1],
              ok |-> TRUE, exc |-> FALSE]

\* _step_inner that keeps the reverse entry of a step that was replayed before
_step_inner_once_mut(st) ==
    IF st.trace_idx >= Len(st.trace)
    THEN [st |-> stop(st), ok |-> FALSE, exc |-> FALSE]
    ELSE LET entry == st.trace[st.trace_idx + 1]
             u == update(st.registers, st.memory, entry)
         IN  [st |-> [st EXCEPT !.registers = u.registers,
                                !.memory = u.memory,
                                !.rev_trace[st.trace_idx + 1] =
                                    IF "pc" \in DOMAIN @ THEN @ ELSE u.rev,
                                !.trace_idx = st.trace_idx + 1],
              ok |-> TRUE, exc |-> FALSE]

\* MinimalRspServer._step_inner; when update() raises, what it wrote so
\* far stays and neither rev_trace nor trace_idx is assigned
_step_inner(st) ==
    LET replayed(u) ==
            IF u.exc
            THEN [st |-> [st EXCEPT !.registers = u.registers, !.memory = u.memory],
                  ok |-> FALSE, exc |-> TRUE]
            ELSE [st |-> [st EXCEPT !.registers = u.registers,
                                    !.memory = u.memory,
                                    !.rev_trace[st.trace_idx + 1] = u.rev,
                                    !.trace_idx = st.trace_idx + 1],
                  ok |-> TRUE, exc |-> FALSE]
    IN  IF st.trace_idx >= Len(st.trace)
        THEN [st |-> stop(st), ok |-> FALSE, exc |-> FALSE]
        ELSE replayed(update(st.registers, st.memory, st.trace[st.trace_idx + 1]))

\* MinimalRspServer._reverse_step_inner; when update() raises (KeyError on
\* an entry that has no "pc"), trace_idx was decremented before
_reverse_step_inner(st) ==
    LET replayed(u) ==
            [st |-> [st EXCEPT !.registers = u.registers,
                               !.memory = u.memory,
                               !.trace_idx = st.trace_idx - 1],
             ok |-> ~u.exc, exc |-> u.exc]
    IN  IF st.trace_idx <= 0
        THEN [st |-> stop(st), ok |-> FALSE, exc |-> FALSE]
        ELSE replayed(update(st.registers, st.memory, st.rev_trace[st.trace_idx]))

\* MinimalRspServer._step: both returns are "S05"
_step(st) ==
    LET reply(r) ==
            IF r.exc THEN Raise(r.st)
            ELSE IF pc(r.st.registers) \in r.st.breakpoints THEN Ret(r.st, S05)
            ELSE Ret(r.st, S05)
    IN  reply(_step_inner(st))

\* _cont that stops at a breakpoint only when the step changed the PC
RECURSIVE _cont_leave_mut(_)
_cont_leave_mut(st) ==
    LET loop(r) ==
            IF r.exc THEN Raise(r.st)
            ELSE IF r.ok
            THEN IF /\ pc(r.st.registers) \in r.st.breakpoints
                    /\ pc(r.st.registers) # pc(st.registers)
                 THEN Ret(r.st, S05)
                 ELSE _cont_leave_mut(r.st)
            ELSE Ret(stop(r.st), W00)
    IN  loop(_step_inner(st))

\* MinimalRspServer._cont
RECURSIVE _cont(_)
_cont(st) ==
    LET loop(r) ==
            IF r.exc THEN Raise(r.st)
            ELSE IF r.ok
            THEN IF pc(r.st.registers) \in r.st.breakpoints THEN Ret(r.st, S05)
                 ELSE _cont(r.st)
            ELSE Ret(stop(r.st), W00)
    IN  loop(_step_inner(st))

\* MinimalRspServer._reverse_step
_reverse_step(st) ==
    LET reply(r) ==
            IF r.exc THEN Raise(r.st)
            ELSE IF pc(r.st.registers) \in r.st.breakpoints THEN Ret(r.st, S05)
            ELSE Ret(r.st, S05)
    IN  reply(_reverse_step_inner(st))

\* MinimalRspServer._reverse_cont
RECURSIVE _reverse_cont(_)
_reverse_cont(st) ==
    LET loop(r) ==
            IF r.exc THEN Raise(r.st)
            ELSE IF r.ok
            THEN IF pc(r.st.registers) \in r.st.breakpoints THEN Ret(r.st, S05)
                 ELSE _reverse_cont(r.st)
            ELSE Ret(stop(r.st), W00)
    IN  loop(_reverse_step_inner(st))

----------------------------------------------------------------------------
(* minimal_rsp_server.py: handle_command *)

\* the end of the run of [0-9a-fA-F] that starts at position i
RECURSIVE HexEnd(_, _)
HexEnd(s, i) == IF i <= Len(s) /\ s[i] \in HexChars THEN HexEnd(s, i + 1) ELSE i

\* re.match of ([0-9a-fA-F]+) groups separated by the characters seps, from
\* position i on; the groups matched (a + is greedy, no separator is a digit)
RECURSIVE HexFields(_, _, _, _)
HexFields(s, i, seps, groups) ==
    LET e == HexEnd(s, i)
        g == Append(groups, SubSeq(s, i, e - 1))
    IN  IF e = i THEN [ok |-> FALSE, groups |-> <<>>]
        ELSE IF seps = <<>> THEN [ok |-> TRUE, groups |-> g]
        ELSE IF e <= Len(s) /\ s[e] = Head(seps)
             THEN HexFields(s, e + 1, Tail(seps), g)
             ELSE [ok |-> FALSE, groups |-> <<>>]

\* re.match(r"Z([0-9]),([0-9a-fA-F]+),([0-9])") after the first character
BreakFields(s) ==
    IF Len(s) >= 3 /\ s[2] \in DecChars /\ s[3] = ","
    THEN LET e == HexEnd(s, 4)
         IN  IF e > 4 /\ e + 1 <= Len(s) /\ s[e] = "," /\ s[e + 1] \in DecChars
             THEN [ok |-> TRUE, groups |-> <<<<s[2]>>, SubSeq(s, 4, e - 1), <<s[e + 1]>>>>]
             ELSE [ok |-> FALSE, groups |-> <<>>]
    ELSE [ok |-> FALSE, groups |-> <<>>]

\* s.split(sep) for a one-character sep
RECURSIVE Split(_, _)
Split(s, sep) ==
    IF \E i \in 1..Len(s) : s[i] = sep
    THEN LET i == CHOOSE j \in 1..Len(s) :
                      s[j] = sep /\ \A k \in 1..(j - 1) : s[k] # sep
         IN  <<SubSeq(s, 1, i - 1)>> \o Split(SubSeq(s, i + 1, Len(s)), sep)
    ELSE <<s>>

SupportedReply ==
    <<"q","X","f","e","r",":","f","e","a","t","u","r","e","s",":","r","e","a","d","-",";","s","w","b","r","e","a","k","-",";","h","w","b","r","e","a","k","+",";","v","C","o","n","t","S","u","p","p","o","r","t","e","d","+",";">>
    \o <<"m","u","l","t","i","p","r","o","c","e","s","s","-",";","Q","S","t","a","r","t","N","o","A","c","k","M","o","d","e","-",";","R","e","v","e","r","s","e","C","o","n","t","i","n","u","e","+",";","R","e","v","e","r","s","e","S","t","e","p","+">>

\* a final return that answers with an error code
Unknown_mut(st) == Ret(st, <<"E","0","1">>)

\* the final "return ''" of handle_command
Unknown(st) == Ret(st, <<>>)

\* "g": every register as swap_endianess(f"{reg:016x}"), from register i on
RECURSIVE read_registers(_, _)
read_registers(regs, i) ==
    IF i >= NUM_REGISTERS THEN <<>>
    ELSE swap_endianess(Format016x(regs[i])) \o read_registers(regs, i + 1)

handle_g(st) ==
    IF \A i \in 0..(NUM_REGISTERS - 1) : SwapOk(Format016x(st.registers[i]))
    THEN Ret(st, read_registers(st.registers, 0))
    ELSE Raise(st)

\* "G": registers i.. from the 16-character groups of reg_values; a group of
\* odd length fails the assertion of swap_endianess, and int(regval, 16)
\* raises when the swapped group is no literal (an empty one is none), both
\* after the earlier registers were written
RECURSIVE write_registers(_, _, _)
write_registers(st, reg_values, i) ==
    IF i >= NUM_REGISTERS THEN Ret(st, OK)
    ELSE LET group == Slice(reg_values, i * 16, (i + 1) * 16)
         IN  IF ~SwapOk(group) \/ ~IsHexStr(swap_endianess(group)) THEN Raise(st)
             ELSE write_registers(
                      [st EXCEPT !.registers[i] = IntOf(swap_endianess(group))],
                      reg_values, i + 1)

handle_G(st, cmd) == write_registers(st, Tail(cmd), 0)

\* "p"
handle_p(st, cmd) ==
    LET match == HexFields(cmd, 2, <<>>, <<>>)
    IN  IF match.ok
        THEN LET reg_num == hexstr_to_int(match.groups[1])
                 value == IF reg_num < NUM_REGISTERS THEN st.registers[reg_num]
                          ELSE <<>>
             IN  IF SwapOk(Format016x(value))
                 THEN Ret(st, swap_endianess(Format016x(value)))
                 ELSE Raise(st)
        ELSE Unknown(st)

\* "P" that stores the digits as sent, without the byte swap
handle_P_mut(st, cmd) ==
    LET match == HexFields(cmd, 2, <<"=">>, <<>>)
    IN  IF match.ok
        THEN LET reg_num == hexstr_to_int(match.groups[1])
             IN  IF ~SwapOk(match.groups[2]) THEN Raise(st)
                 ELSE LET value == IntOf(match.groups[2])
                      IN  IF reg_num < NUM_REGISTERS
                          THEN Ret([st EXCEPT !.registers[reg_num] = value], OK)
                          ELSE Ret(st, OK)
        ELSE Unknown(st)

\* "P" that wraps a register number beyond the register file around
handle_P_wrap_mut(st, cmd) ==
    LET match == HexFields(cmd, 2, <<"=">>, <<>>)
    IN  IF match.ok
        THEN LET reg_num == hexstr_to_int(match.groups[1]) % NUM_REGISTERS
             IN  IF ~SwapOk(match.groups[2]) THEN Raise(st)
                 ELSE LET value == IntOf(swap_endianess(match.groups[2]))
                      IN  Ret([st EXCEPT !.registers[reg_num] = value], OK)
        ELSE Unknown(st)

\* "P"
handle_P(st, cmd) ==
    LET match == HexFields(cmd, 2, <<"=">>, <<>>)
    IN  IF match.ok
        THEN LET reg_num == hexstr_to_int(match.groups[1])
             IN  IF ~SwapOk(match.groups[2]) THEN Raise(st)
                 ELSE LET value == IntOf(swap_endianess(match.groups[2]))
                      IN  IF reg_num < NUM_REGISTERS
                          THEN Ret([st EXCEPT !.registers[reg_num] = value], OK)
                          ELSE Ret(st, OK)
        ELSE Unknown(st)

\* "m" that keeps an entry for every address it read
handle_m_mut(st, cmd) ==
    LET match == HexFields(cmd, 2, <<",">>, <<>>)
    IN  IF match.ok
        THEN LET addr == hexstr_to_int(match.groups[1])
                 read == {addr + k : k \in 0..(hexstr_to_int(match.groups[2]) - 1)}
             IN  Ret([st EXCEPT !.memory =
                          [a \in (DOMAIN @) \cup read |-> mem_byte(@, a)]],
                     get_mem(st.memory, match.groups[1],
                             hexstr_to_int(match.groups[2])))
        ELSE Unknown(st)

\* "m"
handle_m(st, cmd) ==
    LET match == HexFields(cmd, 2, <<",">>, <<>>)
    IN  IF match.ok
        THEN Ret(st, get_mem(st.memory, match.groups[1],
                             hexstr_to_int(match.groups[2])))
        ELSE Unknown(st)

\* "M"
handle_M(st, cmd) ==
    LET match == HexFields(cmd, 2, <<",", ":">>, <<>>)
    IN  IF match.ok
        THEN LET hex_addr == match.groups[1]
                 length == hexstr_to_int(match.groups[2])
                 hex_data == match.groups[3]
             IN  IF set_mem_ok(hex_data, length)
                 THEN Ret([st EXCEPT !.memory = set_mem(st.memory, hex_addr, hex_data)], OK)
                 ELSE Raise(st)
        ELSE Unknown(st)

\* "D"
handle_D(st) == Ret(stop(st), OK)

\* "H": command[1] raises IndexError on "H", int() raises ValueError on a
\* thread id that is no decimal literal
handle_H(st, cmd) ==
    IF Len(cmd) < 2 THEN Raise(st)
    ELSE IF cmd[2] = "c"
    THEN IF IsDecimal(Slice(cmd, 2, Len(cmd)))
         THEN Ret([st EXCEPT !.cont_thread = DecToInt(Slice(cmd, 2, Len(cmd)))], OK)
         ELSE Raise(st)
    ELSE IF cmd[2] = "g"
    THEN IF IsDecimal(Slice(cmd, 2, Len(cmd)))
         THEN Ret([st EXCEPT !.state_query_thread = DecToInt(Slice(cmd, 2, Len(cmd)))], OK)
         ELSE Raise(st)
    ELSE Unknown(st)

\* "qC"
handle_qC(st) == Ret(st, IntToDec(st.cont_thread))

\* "Z"
handle_Z(st, cmd) ==
    LET match == BreakFields(cmd)
    IN  IF match.ok
        THEN Ret([st EXCEPT !.breakpoints = @ \cup {IntOf(match.groups[2])}], OK)
        ELSE Unknown(st)

\* "z" that looks for the digits of the address as they were sent
handle_z_mut(st, cmd) ==
    LET match == BreakFields(cmd)
    IN  IF match.ok
        THEN Ret([st EXCEPT !.breakpoints = @ \ {match.groups[2]}], OK)
        ELSE Unknown(st)

\* "z"
handle_z(st, cmd) ==
    LET match == BreakFields(cmd)
    IN  IF match.ok
        THEN Ret([st EXCEPT !.breakpoints = @ \ {IntOf(match.groups[2])}], OK)
        ELSE Unknown(st)

\* MinimalRspServer._handle_vcont: the loop over actions[i..]
RECURSIVE vcont_actions(_, _, _, _)
vcont_actions(st, actions, i, resp) ==
    IF i > Len(actions) THEN Ret(st, resp)
    ELSE LET action == actions[i]
             action_type == Split(action, ":")[1]
             after(r) == IF r.exc THEN r
                         ELSE vcont_actions(r.st, actions, i + 1, r.reply)
         IN  IF action = <<>> THEN vcont_actions(st, actions, i + 1, resp)
             ELSE IF action_type = <<"s">> THEN after(_step(st))
             ELSE IF action_type = <<"c">> THEN after(_cont(st))
             ELSE vcont_actions(st, actions, i + 1, resp)

\* MinimalRspServer._handle_vcont
_handle_vcont(st, cmd) ==
    IF cmd = <<"v","C","o","n","t","?">>
    THEN Ret(st, <<"v","C","o","n","t",";","c",";","s">>)
    ELSE vcont_actions(st, Split(Slice(cmd, 6, Len(cmd)), ";"), 1, OK)

\* handle_command: the branch its chain of tests selects for a payload
dispatch(cmd) ==
    IF StartsWith(cmd, <<"q","S","u","p","p","o","r","t","e","d">>) THEN "qSupported"
    ELSE IF cmd = <<"?">> THEN "?"
    ELSE IF cmd = <<"g">> THEN "g"
    ELSE IF StartsWith(cmd, <<"G">>) THEN "G"
    ELSE IF StartsWith(cmd, <<"p">>) THEN "p"
    ELSE IF StartsWith(cmd, <<"P">>) THEN "P"
    ELSE IF StartsWith(cmd, <<"m">>) THEN "m"
    ELSE IF StartsWith(cmd, <<"M">>) THEN "M"
    ELSE IF StartsWith(cmd, <<"c">>) THEN "c"
    ELSE IF StartsWith(cmd, <<"s">>) THEN "s"
    ELSE IF StartsWith(cmd, <<"b","c">>) THEN "bc"
    ELSE IF StartsWith(cmd, <<"b","s">>) THEN "bs"
    ELSE IF StartsWith(cmd, <<"D">>) THEN "D"
    ELSE IF StartsWith(cmd, <<"H">>) THEN "H"
    ELSE IF cmd = <<"q","C">> THEN "qC"
    ELSE IF StartsWith(cmd, <<"Z">>) THEN "Z"
    ELSE IF StartsWith(cmd, <<"z">>) THEN "z"
    ELSE IF cmd = <<"q","S","y","m","b","o","l",":",":">> THEN "qSymbol"
    ELSE IF cmd = <<"v","M","u","s","t","R","e","p","l","y","E","m","p","t","y">>
         THEN "vMustReplyEmpty"
    ELSE IF cmd = <<"q","A","t","t","a","c","h","e","d">> THEN "qAttached"
    ELSE IF StartsWith(cmd, <<"v","C","o","n","t">>) THEN "vCont"
    ELSE "unknown"

\* MinimalRspServer.handle_command
handle_command(st, cmd) ==
    LET branch == dispatch(cmd)
    IN  CASE branch = "qSupported" -> Ret(st, SupportedReply)
          [] branch = "?" -> Ret(st, S05)
          [] branch = "g" -> handle_g(st)
          [] branch = "G" -> handle_G(st, cmd)
          [] branch = "p" -> handle_p(st, cmd)
          [] branch = "P" -> handle_P(st, cmd)
          [] branch = "m" -> handle_m(st, cmd)
          [] branch = "M" -> handle_M(st, cmd)
          [] branch = "c" -> _cont(st)
          [] branch = "s" -> _step(st)
          [] branch = "bc" -> _reverse_cont(st)
          [] branch = "bs" -> _reverse_step(st)
          [] branch = "D" -> handle_D(st)
          [] branch = "H" -> handle_H(st, cmd)
          [] branch = "qC" -> handle_qC(st)
          [] branch = "Z" -> handle_Z(st, cmd)
          [] branch = "z" -> handle_z(st, cmd)
          [] branch = "qSymbol" -> Ret(st, OK)
          [] branch = "vMustReplyEmpty" -> Ret(st, <<>>)
          [] branch = "qAttached" -> Ret(st, <<"1">>)
          [] branch = "vCont" -> _handle_vcont(st, cmd)
          [] OTHER -> Unknown(st)

----------------------------------------------------------------------------
(* minimal_rsp_server.py: the framer *)

\* MinimalRspServer._recv_packet on the bytes the socket delivers: the loop
\* ends at the first "#", the payload is what follows the last "$" before
\* it (the bytes from the start when there is none); recv() returns no byte
\* at the end of the stream, and recv(2) the bytes that are left when fewer
\* than 2 are.  used is the number of bytes read; exc is the ValueError of
\* int(rx_checksum, 16).
_recv_packet(bytes) ==
    LET hashes == {i \in 1..Len(bytes) : bytes[i] = "#"}
    IN  IF hashes = {}
        THEN [command |-> None, res_ok |-> FALSE, exc |-> FALSE, used |-> Len(bytes)]
        ELSE LET end == CHOOSE i \in hashes : \A j \in hashes : i <= j
                 dollars == {i \in 1..(end - 1) : bytes[i] = "$"}
                 first == IF dollars = {} THEN 1
                          ELSE 1 + CHOOSE i \in dollars : \A j \in dollars : j <= i
                 data == SubSeq(bytes, first, end - 1)
                 rx_checksum == SubSeq(bytes, end + 1, Min(end + 2, Len(bytes)))
             IN  IF IsHexStr(rx_checksum)
                 THEN [command |-> data,
                       res_ok |-> hexstr_to_int(rx_checksum) = get_bytes_checksum(data),
                       exc |-> FALSE, used |-> Min(end + 2, Len(bytes))]
                 ELSE [command |-> None, res_ok |-> FALSE, exc |-> TRUE,
                       used |-> Min(end + 2, Len(bytes))]

\* _send_packet that prints the checksum with "x" for "02x"
_send_packet_mut(data) ==
    <<"$">> \o data \o <<"#">>
        \o (IF get_checksum(data) < 16 THEN <<HexLower[get_checksum(data) + 1]>>
            ELSE Format02x(get_checksum(data)))

\* MinimalRspServer._send_packet: the string handed to _send
_send_packet(data) ==
    <<"$">> \o data \o <<"#">> \o Format02x(get_checksum(data))

----------------------------------------------------------------------------
(* The inputs: the traces the server is constructed with and the payloads  *)
(* the debugger sends.                                                     *)

MaxTraceLen == 3

\* the loops of handle_client take at most MaxPackets turns in all
MaxPackets == 3

\* the connections that start accepts with ALLOW_MULTIPLE_CONNECTIONS
MaxClients == 2

\* the turns of handle_client in a session of steps and register writes
MaxTurns == 4

\* the turns of handle_client in a session of queries, writes and steps
MaxFrameTurns == 3

Clients == 1..MaxClients

X(n) == <<"x">> \o NatToDec(n)

\* register writes; a PC that repeats in consecutive records and comes back
BaseTraceRegs ==
    << [pc |-> <<"1","0","0","4">>, rw |-> << <<X(5), <<"1","0","0","0">>>> >>],
       [pc |-> <<"1","0","0","4">>, rw |-> << <<X(11), <<"1","0","2","0">>>>,
                                             <<<<"f","1">>, <<"7">>>> >>],
       [pc |-> <<"1","0","0","8">>, rw |-> << <<X(5), <<"2","0","0","0">>>> >>],
       [pc |-> <<"1","0","0","4">>] >>

\* memory writes: several bytes, and overlapping spans within one record;
\* the second record also writes the PC slot of the register list
BaseTraceMem ==
    << [pc |-> <<"2","0","0","0">>, mw |-> << <<<<"1","0">>, <<"d","e","a","d">>>> >>],
       [pc |-> <<"2","0","0","4">>, rw |-> << <<X(PC_REG), <<"1","0","0","8">>>> >>,
                                    mw |-> << <<<<"1","1">>, <<"1","1">>>>,
                                             <<<<"1","1">>, <<"2","2">>>> >>],
       [pc |-> <<"2","0","0","0">>, rw |-> << <<X(5), <<"1">>>> >>,
                                    mw |-> << <<<<"1","0">>, <<"0","1">>>> >>],
       [pc |-> <<"2","0","0","4">>] >>

\* register names beyond the register file: the second record writes x7,
\* then x40, on which update() raises IndexError, and x8 after it
BaseTraceOdd ==
    << [pc |-> <<"1","0","0","4">>, rw |-> << <<X(6), <<"6">>>> >>],
       [pc |-> <<"1","0","0","8">>, rw |-> << <<X(7), <<"7">>>>,
                                             <<X(40), <<"1">>>>,
                                             <<X(8), <<"8">>>> >>] >>

Traces ==
    {SubSeq(base, 1, n) :
        base \in {BaseTraceRegs, BaseTraceMem},
        n \in 0..Min(MaxTraceLen, 4)}
    \cup {BaseTraceOdd}

InitPc == <<"1","0","0","0">>

\* a "G" payload: every register 0 but x5 = 0x1122334455667788 and PC = 0x1008
RegFile ==
    Tuple([i \in 1..(16 * NUM_REGISTERS) |->
        IF (i - 1) \div 16 = 5
        THEN <<"8","8","7","7","6","6","5","5","4","4","3","3","2","2","1","1">>[((i - 1) % 16) + 1]
        ELSE IF (i - 1) \div 16 = PC_REG
        THEN <<"0","8","1","0","0","0","0","0","0","0","0","0","0","0","0","0">>[((i - 1) % 16) + 1]
        ELSE "0"])

QueryPackets ==
    { <<"q","S","u","p","p","o","r","t","e","d",":","m","u","l","t","i","p","r","o","c","e","s","s","+">>,
      <<"?">>, <<"q","C">>, <<"q","S","y","m","b","o","l",":",":">>,
      <<"v","M","u","s","t","R","e","p","l","y","E","m","p","t","y">>,
      <<"q","A","t","t","a","c","h","e","d">>, <<"v","C","o","n","t","?">>,
      <<"q","F","o","o">>,
      <<"p","5">>, <<"p","2","1">>,
      <<"m","1","0",",","2">> }

WritePackets ==
    { <<"P","5","=">> \o <<"e","f","c","d","a","b","8","9","6","7","4","5","2","3","0","1">>,
      <<"P","2","0","=">> \o <<"0","C","2","0","0","0","0","0","0","0","0","0","0","0","0","0">>,
      <<"P","2","1","=">> \o <<"0","4","1","0","0","0","0","0","0","0","0","0","0","0","0","0">>,
      <<"P","5","=">> \o <<"0","0","0","0","0","0","0","0","0","0","0","0","0","0","0","0","f","f">>,
      <<"P","2","1","=","a","b","c">>,
      <<"M","1","0",",","2",":","1","2","3","4">>,
      <<"M","1","1",",","1",":","a","b">>,
      <<"M","1","0",",","1",":","1","2","3","4">> }

\* the packets that read and write the whole register file; in the last
\* two the digits of x0 end in a vertical tab, or a sign, and a digit,
\* which come first once the group is swapped
RegisterFilePackets ==
    { <<"g">>, <<"G">> \o RegFile, <<"G">> \o Zero16,
      <<"G">> \o SubSeq(Zero16, 1, 14) \o <<"","1">> \o SubSeq(RegFile, 17, Len(RegFile)),
      <<"G">> \o SubSeq(Zero16, 1, 14) \o <<"-","1">> \o SubSeq(RegFile, 17, Len(RegFile)) }

ExecPackets ==
    { <<"s">>, <<"c">>, <<"b","s">>, <<"b","c">>,
      <<"v","C","o","n","t",";","s">>,
      <<"v","C","o","n","t",";","s",":","1",";","c">> }

SessionPackets ==
    { <<"D">>, <<"H","g","0">>, <<"H","c","","1">>, <<"H","x","1">>,
      <<"H","c","x">>, <<"Z">>,
      <<"Z","0",",","1","0","0","4",",","4">>, <<"Z","1",",","1","0","0","8",",","2">>,
      <<"z","0",",","1","0","0","4",",","4">>,
      <<"z","1",",","0","1","0","0","4",",","2">> }

Packets ==
    QueryPackets \cup WritePackets \cup ExecPackets \cup SessionPackets
        \cup RegisterFilePackets

----------------------------------------------------------------------------
(* What the debugger puts on the wire *)

\* the longest payload handed to the framer alone
MaxPayloadLen == 3

\* payloads for the framer alone: every string of these characters, a
\* payload whose bytes up to its "$" sum to 256, and two in which the "#"
\* is followed by two hex digits, the sum of the "O" before it and not
PayloadChars == {"O", "~", "$", "#"}

Payloads ==
    UNION {{Tuple(f) : f \in [1..n -> PayloadChars]} : n \in 0..MaxPayloadLen}
    \cup { <<"n","n","$","b">>, <<"O","#","4","f">>, <<"O","#","1","2">> }

\* a payload framed by the debugger: "$", the payload, "#" and the two
\* lower-case hex digits of the sum of its bytes modulo 256
Framed(cmd) ==
    <<"$">> \o cmd \o <<"#">>
        \o <<HexLower[((SumFrom(cmd, 1) % 256) \div 16) + 1],
             HexLower[(SumFrom(cmd, 1) % 16) + 1]>>

\* the payloads the debugger sends after the "+" that acknowledges the
\* previous reply
AckedPackets == { <<"s">> }

\* packets whose checksum is not that of the payload: other digits, a digit
\* after a vertical tab, and one digit before the end of the stream
CorruptStreams ==
    { <<"$","s","#","0","0">>, <<"$","D","#","4","5">>,
      <<"$","M","1","0",",","2",":","1","2","3","4","#","F","F">>,
      <<"$","Z","0",",","1","0","0","4",",","4","#","0","0">>,
      <<"$","#","0","1">>,
      <<"$","s","#","","7">>,
      <<"$","s","#","7">> }

\* streams that end the loop: the end of the stream at once, inside a
\* payload and after "#", an empty payload, checksum bytes that int() rejects
ClosingStreams ==
    { <<>>, <<"$","s">>, <<"$","s","#">>, <<"$","#","0","0">>,
      <<"$","s","#","z","z">> }

----------------------------------------------------------------------------
(* The server: construction, start() accepting connections, and the loop   *)
(* of handle_client, one action per branch of handle_command.              *)

\* CpuState.__init__: every register 0, the PC at init_pc
InitRegisters ==
    [i \in 0..(NUM_REGISTERS - 1) |-> IF i = PC_REG THEN InitPc ELSE <<>>]

\* RiscvCpuState.__init__, MinimalRspServer.__init__
Init ==
    /\ trace \in Traces
    /\ rev_trace = [i \in 1..Len(trace) |-> <<>>]
    /\ trace_idx = 0
    /\ breakpoints = {}
    /\ cont_thread = -1
    /\ state_query_thread = -1
    /\ registers = InitRegisters
    /\ memory = <<>>
    /\ running = TRUE
    /\ conn = "listening"
    /\ clients = {}
    /\ client = 0
    /\ stream = <<>>
    /\ command = None
    /\ checksum_ok = FALSE
    /\ response = None
    /\ sent = <<>>
    /\ received = 0
    /\ alone = <<>>
    /\ thread = <<>>

SetState(st) ==
    /\ registers' = st.registers
    /\ memory' = st.memory
    /\ running' = st.running
    /\ trace_idx' = st.trace_idx
    /\ rev_trace' = st.rev_trace
    /\ breakpoints' = st.breakpoints
    /\ cont_thread' = st.cont_thread
    /\ state_query_thread' = st.state_query_thread
    /\ trace' = st.trace

\* MinimalRspServer.start without ALLOW_MULTIPLE_CONNECTIONS: the single
\* connection is accepted and handle_client is called
start ==
    /\ conn = "listening"
    /\ conn' = "open"
    /\ clients' = {1}
    /\ UNCHANGED <<trace, cpu_vars, client, stream, command, checksum_ok,
                   response, sent, received, alone, thread>>

\* handle_client returns: the thread of the connection ends, and so does
\* start when it called handle_client itself
Leave(c) ==
    /\ clients' = clients \ {c}
    /\ conn' = IF conn = "open" THEN "closed" ELSE conn

\* MinimalRspServer.handle_client: one turn of the loop of connection c, on
\* the bytes that its _recv_packet reads
handle_client(c, bytes) ==
    /\ c \in clients
    /\ client' = c
    /\ received' = received + 1
    /\ stream' = bytes
    /\ \E p \in {_recv_packet(bytes)} :
           /\ p.used = Len(bytes)
           /\ command' = p.command
           /\ checksum_ok' = p.res_ok
           /\ IF p.exc \/ p.command = None \/ p.command = <<>>
              THEN /\ Leave(c)
                   /\ response' = None
                   /\ sent' = <<>>
                   /\ UNCHANGED <<trace, cpu_vars>>
              ELSE IF ~p.res_ok
              THEN /\ response' = None
                   /\ sent' = << <<"-">> >>
                   /\ UNCHANGED <<trace, cpu_vars, conn, clients>>
              ELSE \E r \in {handle_command(State, p.command)} :
                       /\ SetState(r.st)
                       /\ response' = r.reply
                       /\ IF r.exc
                          THEN sent' = << <<"+">> >> /\ Leave(c)
                          ELSE /\ sent' = << <<"+">>, _send_packet(r.reply) >>
                               /\ UNCHANGED <<conn, clients>>

\* the end of the stream, an empty payload, checksum bytes that int() rejects
RecvNothing ==
    /\ received < MaxPackets
    /\ \E bytes \in ClosingStreams :
           /\ handle_client(1, bytes)
           /\ UNCHANGED <<alone, thread>>

\* a packet whose checksum does not match
RecvCorrupt ==
    /\ received < MaxPackets
    /\ \E bytes \in CorruptStreams :
           /\ handle_client(1, bytes)
           /\ UNCHANGED <<alone, thread>>

Branches ==
    {"qSupported", "?", "g", "G", "p", "P", "m", "M", "c", "s", "bc", "bs", "D",
     "H", "qC", "Z", "z", "qSymbol", "vMustReplyEmpty", "qAttached", "vCont",
     "unknown"}

\* the payloads that handle_command dispatches to each branch
PacketsOf == [b \in Branches |-> {cmd \in Packets : dispatch(cmd) = b}]

\* the same on the wire
WireOf ==
    [b \in Branches |->
        {Framed(cmd) : cmd \in PacketsOf[b]}
            \cup {<<"+">> \o Framed(cmd) : cmd \in PacketsOf[b] \cap AckedPackets}]

Recv(branches) ==
    /\ received < MaxPackets
    /\ \E b \in branches : \E bytes \in WireOf[b] :
           /\ handle_client(1, bytes)
           /\ UNCHANGED <<alone, thread>>

RecvQuery == Recv({"qSupported", "?", "qC", "qSymbol", "vMustReplyEmpty", "qAttached", "unknown"})
RecvReadRegisters == Recv({"g"})
RecvWriteRegisters == Recv({"G"})
RecvReadRegister == Recv({"p"})
RecvWriteRegister == Recv({"P"})
RecvReadMemory == Recv({"m"})
RecvWriteMemory == Recv({"M"})
RecvCont == Recv({"c"})
RecvStep == Recv({"s"})
RecvReverseCont == Recv({"bc"})
RecvReverseStep == Recv({"bs"})
RecvDetach == Recv({"D"})
RecvSetThread == Recv({"H"})
RecvInsertBreakpoint == Recv({"Z"})
RecvRemoveBreakpoint == Recv({"z"})
RecvVCont == Recv({"vCont"})

Next ==
    \/ start
    \/ RecvNothing
    \/ RecvCorrupt
    \/ RecvQuery
    \/ RecvReadRegister
    \/ RecvWriteRegister
    \/ RecvReadMemory
    \/ RecvWriteMemory
    \/ RecvCont
    \/ RecvStep
    \/ RecvReverseCont
    \/ RecvReverseStep
    \/ RecvDetach
    \/ RecvSetThread
    \/ RecvInsertBreakpoint
    \/ RecvRemoveBreakpoint
    \/ RecvVCont

Spec == Init /\ [][Next]_vars

\* a session of execution control only: the debugger writes neither
\* registers nor memory
NextReplay ==
    \/ start
    \/ RecvNothing
    \/ RecvCont
    \/ RecvStep
    \/ RecvReverseCont
    \/ RecvReverseStep
    \/ RecvVCont
    \/ RecvInsertBreakpoint
    \/ RecvRemoveBreakpoint

SpecReplay == Init /\ [][NextReplay]_vars

\* a session that reads and writes the whole register file ("g", "G")
NextRegisterFile ==
    \/ start
    \/ RecvNothing
    \/ RecvReadRegisters
    \/ RecvWriteRegisters
    \/ RecvReadRegister
    \/ RecvWriteRegister
    \/ RecvStep
    \/ RecvReverseStep

SpecRegisterFile == Init /\ [][NextRegisterFile]_vars

\* the framer alone: what _send_packet writes for a payload is read back by
\* _recv_packet
Loopback(data) ==
    /\ conn = "listening"
    /\ response' = data
    /\ sent' = << _send_packet(data) >>
    /\ stream' = _send_packet(data)
    /\ \E p \in {_recv_packet(_send_packet(data))} :
           /\ command' = p.command
           /\ checksum_ok' = p.res_ok
    /\ UNCHANGED <<trace, cpu_vars, conn, clients, client, received, alone, thread>>

NextFramer == \E data \in Payloads : Loopback(data)

SpecFramer == Init /\ [][NextFramer]_vars

\* the CpuState and the server that __init__ builds for the trace
Fresh ==
    [registers |-> InitRegisters, memory |-> <<>>, running |-> TRUE,
     trace_idx |-> 0, rev_trace |-> [i \in 1..Len(trace) |-> <<>>],
     breakpoints |-> {}, cont_thread |-> -1, state_query_thread |-> -1,
     trace |-> trace]

\* a thread of handle_client that waits in _recv_packet: the statement it
\* is at, the payload it handles, and its locals: entry, rev_entry, the
\* value loaded for "trace_idx += 1" or "-= 1", what the inner step
\* returned, the PC read for the test of the breakpoints, the item of rw or
\* mw that update() is at, offs and data_arr of set_mem and get_mem, and
\* the response that handle_command returned
Waiting ==
    [at |-> "recv", cmd |-> None, entry |-> <<>>, rev_entry |-> <<>>,
     idx |-> 0, inner |-> FALSE, value |-> <<>>, item |-> 0, offs |-> 0,
     data_arr |-> <<>>, response |-> None]

\* one statement of a thread of handle_client, on the shared state st.
\* The threads hold no lock, so any other thread may run between two
\* statements; a statement reads or writes the shared state once.
\* th.at names the line it is at: of minimal_rsp_server.py "119" for the
\* call of handle_command on a payload other than c, s, bc and bs, whose
\* handler reads or writes the shared state once, "132" to "138" in
\* _step_inner and "142" to "146" in _reverse_step_inner ("138" and "145"
\* load trace_idx, "138w" and "145w" store it), "return" and "in" for the
\* caller's read of pc() and test of the breakpoints, "121" for the
\* _send_packet of the response, which writes to the connection's own
\* socket after every access to the shared state; of cpu_state.py "116" to
\* "139" in update, "95" in get_mem and "83" in set_mem.
\* A list index i reads position i + 1, a negative one counts from the end,
\* and one outside the list raises IndexError.
Execute(st, th) ==
    LET forward == dispatch(th.cmd) \in {"s", "c"}
        go(s, t) == [st |-> s, th |-> t, reply |-> None, exc |-> FALSE]
        raise(s) == [st |-> s, th |-> [Waiting EXCEPT !.at = "raised"],
                     reply |-> None, exc |-> TRUE]
        done(s, reply) == go(s, [Waiting EXCEPT !.cmd = th.cmd, !.at = "121",
                                                !.response = reply])
        handled(r) == IF r.exc THEN raise(r.st) ELSE done(r.st, r.reply)
        returns(value) == [Waiting EXCEPT !.cmd = th.cmd, !.at = "return",
                                          !.inner = value]
        index(len, i) == IF 0 <= i /\ i < len THEN i + 1
                         ELSE IF i < 0 /\ 0 - i <= len THEN len + i + 1
                         ELSE 0
        \* update() returns: _step_inner goes on with rev_entry, the
        \* reverse step returns True
        updated(t) ==
            IF forward
            THEN [t EXCEPT !.at = "137", !.entry = <<>>, !.item = 0, !.offs = 0,
                           !.data_arr = <<>>]
            ELSE returns(TRUE)
        \* the loop over mw is at item i
        to_mw(t, i) ==
            IF "mw" \in DOMAIN th.entry /\ i <= Len(th.entry["mw"])
            THEN [t EXCEPT !.at = "136", !.item = i, !.offs = 0, !.data_arr = <<>>]
            ELSE updated(t)
        \* the loop over rw is at item i: the items whose name does not
        \* start with "x" are passed over
        to_rw(t, i) ==
            LET named == IF "rw" \in DOMAIN th.entry
                         THEN {k \in i..Len(th.entry["rw"]) :
                                  StartsWith(th.entry["rw"][k][1], <<"x">>)}
                         ELSE {}
            IN  IF named = {} THEN to_mw(t, 1)
                ELSE [t EXCEPT !.at = "124",
                               !.item = CHOOSE k \in named : \A j \in named : k <= j]
        reg == th.entry["rw"][th.item][1]
        slot == IF IsDecimal(Tail(reg))
                THEN index(NUM_REGISTERS, DecToInt(Tail(reg))) - 1
                ELSE -1
        mem_addr == th.entry["mw"][th.item][1]
        hex_value == th.entry["mw"][th.item][2]
        num_bytes == Len(hex_value) \div 2
    IN  CASE th.at = "119" -> handled(handle_command(st, th.cmd))
          [] th.at = "121" ->
                 [st |-> st, th |-> Waiting, reply |-> th.response, exc |-> FALSE]
          [] th.at = "132" ->
                 IF st.trace_idx >= Len(st.trace) THEN go(st, [th EXCEPT !.at = "133"])
                 ELSE go(st, [th EXCEPT !.at = "135"])
          [] th.at = "133" -> go(stop(st), returns(FALSE))
          [] th.at = "135" ->
                 IF index(Len(st.trace), st.trace_idx) = 0 THEN raise(st)
                 ELSE go(st, [th EXCEPT !.at = "116",
                                        !.entry = st.trace[index(Len(st.trace),
                                                                 st.trace_idx)]])
          [] th.at = "116" ->
                 go(st, [th EXCEPT !.at = "117",
                                   !.rev_entry = ("pc" :> pc(st.registers))])
          [] th.at = "117" ->
                 IF "pc" \notin DOMAIN th.entry THEN raise(st)
                 ELSE go([st EXCEPT !.registers = set_pc(@, th.entry["pc"])],
                         to_rw([th EXCEPT !.rev_entry =
                                    [key \in (DOMAIN th.entry) \cap {"pc", "rw", "mw"} |->
                                        IF key = "pc" THEN th.rev_entry["pc"]
                                        ELSE <<>>]],
                               1))
          [] th.at = "124" ->
                 IF slot < 0 THEN raise(st)
                 ELSE go(st, [th EXCEPT !.at = "125",
                                        !.rev_entry["rw"] =
                                            Append(@, <<reg, st.registers[slot]>>)])
          [] th.at = "125" ->
                 go([st EXCEPT !.registers[slot] = th.entry["rw"][th.item][2]],
                    to_rw(th, th.item + 1))
          [] th.at = "136" ->
                 IF ~IsHexStr(mem_addr) THEN raise(st)
                 ELSE IF num_bytes = 0
                 THEN go(st, [th EXCEPT !.at = "139",
                                        !.rev_entry["mw"] = Append(@, <<mem_addr, <<>>>>)])
                 ELSE go(st, [th EXCEPT !.at = "95"])
          [] th.at = "95" ->
                 LET read == Append(th.data_arr,
                                    mem_byte(st.memory, hexstr_to_int(mem_addr) + th.offs))
                 IN  IF th.offs + 1 < num_bytes
                     THEN go(st, [th EXCEPT !.offs = @ + 1, !.data_arr = read])
                     ELSE go(st, [th EXCEPT !.at = "139", !.offs = 0,
                                            !.data_arr = <<>>,
                                            !.rev_entry["mw"] =
                                                Append(@, <<mem_addr, FormatBytes(read)>>)])
          [] th.at = "139" ->
                 IF Len(hex_value) % 2 # 0 THEN raise(st)
                 ELSE IF num_bytes = 0 THEN go(st, to_mw(th, th.item + 1))
                 ELSE go(st, [th EXCEPT !.at = "83", !.offs = 0])
          [] th.at = "83" ->
                 IF ~IsHexStr(Slice(hex_value, th.offs, th.offs + 2)) THEN raise(st)
                 ELSE go([st EXCEPT !.memory =
                              [a \in (DOMAIN @) \cup {hexstr_to_int(mem_addr) + th.offs} |->
                                  IF a = hexstr_to_int(mem_addr) + th.offs
                                  THEN hexstr_to_int(Slice(hex_value, th.offs,
                                                           th.offs + 2))
                                  ELSE @[a]]],
                         IF th.offs + 1 < num_bytes THEN [th EXCEPT !.offs = @ + 1]
                         ELSE to_mw([th EXCEPT !.offs = 0], th.item + 1))
          [] th.at = "137" ->
                 IF index(Len(st.rev_trace), st.trace_idx) = 0 THEN raise(st)
                 ELSE go([st EXCEPT !.rev_trace[index(Len(st.rev_trace), st.trace_idx)] =
                                        th.rev_entry],
                         [th EXCEPT !.at = "138", !.rev_entry = <<>>])
          [] th.at = "138" -> go(st, [th EXCEPT !.at = "138w", !.idx = st.trace_idx])
          [] th.at = "138w" -> go([st EXCEPT !.trace_idx = th.idx + 1], returns(TRUE))
          [] th.at = "142" ->
                 IF st.trace_idx <= 0 THEN go(st, [th EXCEPT !.at = "143"])
                 ELSE go(st, [th EXCEPT !.at = "145"])
          [] th.at = "143" -> go(stop(st), returns(FALSE))
          [] th.at = "145" -> go(st, [th EXCEPT !.at = "145w", !.idx = st.trace_idx])
          [] th.at = "145w" -> go([st EXCEPT !.trace_idx = th.idx - 1],
                                  [th EXCEPT !.at = "146", !.idx = 0])
          [] th.at = "146" ->
                 IF index(Len(st.rev_trace), st.trace_idx) = 0 THEN raise(st)
                 ELSE go(st, [th EXCEPT !.at = "116",
                                        !.entry = st.rev_trace[index(Len(st.rev_trace),
                                                                     st.trace_idx)]])
          [] th.at = "return" ->
                 IF dispatch(th.cmd) \in {"s", "bs"} THEN done(st, S05)
                 ELSE IF ~th.inner THEN done(stop(st), W00)
                 ELSE go(st, [th EXCEPT !.at = "in", !.value = pc(st.registers)])
          [] th.at = "in" ->
                 IF th.value \in st.breakpoints THEN done(st, S05)
                 ELSE go(st, [Waiting EXCEPT !.cmd = th.cmd,
                                             !.at = IF forward THEN "132" ELSE "142"])

\* MinimalRspServer.start with ALLOW_MULTIPLE_CONNECTIONS: accept returns
\* connection c and a thread is started on self.handle_client; the thread
\* runs from now on, and the loop has its test of cpu_state.running ahead.
\* alone[c] is the state of a server that serves c and nobody else.
accept(c) ==
    /\ conn = "listening"
    /\ c \notin DOMAIN alone
    /\ clients' = clients \cup {c}
    /\ conn' = "started"
    /\ alone' = alone @@ (c :> Fresh)
    /\ thread' = thread @@ (c :> Waiting)
    /\ UNCHANGED <<trace, cpu_vars, client, stream, command, checksum_ok,
                   response, sent, received>>

\* the test of the accept loop, whenever start gets to it after a thread
\* was started: accept is called again, or start returns
while_running ==
    /\ conn = "started"
    /\ conn' = IF running THEN "listening" ELSE "done"
    /\ UNCHANGED <<trace, cpu_vars, clients, client, stream, command,
                   checksum_ok, response, sent, received, alone, thread>>

\* the thread of connection c receives a payload and writes "+"; it has
\* the call of handle_command ahead, which for c, s, bc and bs enters
\* _step_inner or _reverse_step_inner
Call(c, cmd) ==
    /\ received < MaxPackets
    /\ c \in clients
    /\ thread[c].at = "recv"
    /\ client' = c
    /\ received' = received + 1
    /\ stream' = Framed(cmd)
    /\ \E p \in {_recv_packet(Framed(cmd))} :
           /\ p.res_ok
           /\ command' = p.command
           /\ checksum_ok' = p.res_ok
           /\ thread' = [thread EXCEPT ![c] =
                 [Waiting EXCEPT !.cmd = p.command,
                                 !.at = IF dispatch(p.command) \in {"s", "c"}
                                        THEN "132"
                                        ELSE IF dispatch(p.command) \in {"bs", "bc"}
                                        THEN "142" ELSE "119"]]
    /\ response' = None
    /\ sent' = << <<"+">> >>
    /\ UNCHANGED <<trace, cpu_vars, conn, clients, alone>>

\* the thread of connection c executes the statement it is at; the
\* _send_packet of the response ends the turn, and an exception ends the
\* thread
Statement(c) ==
    /\ c \in clients
    /\ thread[c].at # "recv"
    /\ received' = received
    /\ \E r \in {Execute(State, thread[c])} :
           /\ SetState(r.st)
           /\ thread' = [thread EXCEPT ![c] = r.th]
           /\ IF r.exc \/ r.reply # None
              THEN /\ client' = c
                   /\ stream' = Framed(thread[c].cmd)
                   /\ command' = thread[c].cmd
                   /\ checksum_ok' = TRUE
                   /\ response' = r.reply
                   /\ alone' = [alone EXCEPT ![c] =
                                    handle_command(alone[c], thread[c].cmd).st]
                   /\ IF r.exc
                      THEN sent' = << <<"+">> >> /\ Leave(c)
                      ELSE /\ sent' = << <<"+">>, _send_packet(r.reply) >>
                           /\ UNCHANGED <<conn, clients>>
              ELSE UNCHANGED <<client, stream, command, checksum_ok, response,
                               sent, conn, clients, alone>>

ClientStep == \E c \in Clients : Call(c, <<"s">>)
ClientReverseStep == \E c \in Clients : Call(c, <<"b","s">>)
ClientReadRegister == \E c \in Clients : Call(c, <<"p","2","0">>)
ClientInsertBreakpoint ==
    \E c \in Clients : Call(c, <<"Z","0",",","1","0","0","4",",","4">>)
ClientCont == \E c \in Clients : Call(c, <<"c">>)
ClientDetach == \E c \in Clients : Call(c, <<"D">>)

NextMulti ==
    \/ \E c \in Clients : accept(c)
    \/ while_running
    \/ ClientStep
    \/ ClientReverseStep
    \/ ClientReadRegister
    \/ ClientInsertBreakpoint
    \/ ClientCont
    \/ ClientDetach
    \/ \E c \in Clients : Statement(c)

\* the server is constructed with a trace of one or two register records
InitMulti ==
    /\ Init
    /\ trace \in {SubSeq(BaseTraceRegs, 1, n) : n \in 1..2}

SpecMulti == InitMulti /\ [][NextMulti]_vars

\* a session in which the debugger steps forward and back and writes
\* registers and memory in between
InitDelta ==
    /\ Init
    /\ trace \in {SubSeq(base, 1, n) :
                      base \in {BaseTraceRegs, BaseTraceMem},
                      n \in 1..Min(MaxTraceLen, 4)}

DeltaTurn(cmd) ==
    /\ received < MaxTurns
    /\ handle_client(1, Framed(cmd))
    /\ UNCHANGED <<alone, thread>>

DeltaStep == DeltaTurn(<<"s">>)
DeltaReverseStep == DeltaTurn(<<"b","s">>)
DeltaCont == DeltaTurn(<<"c">>)
DeltaWriteRegister ==
    \E cmd \in {w \in WritePackets : dispatch(w) = "P"} : DeltaTurn(cmd)
DeltaWriteRegisters == DeltaTurn(<<"G">> \o RegFile)
DeltaWriteMemory ==
    \E cmd \in {w \in WritePackets : dispatch(w) = "M"} : DeltaTurn(cmd)

NextDelta ==
    \/ start
    \/ DeltaStep
    \/ DeltaReverseStep
    \/ DeltaCont
    \/ DeltaWriteRegister
    \/ DeltaWriteRegisters
    \/ DeltaWriteMemory

SpecDelta == InitDelta /\ [][NextDelta]_vars

\* a session, on a trace of one or two records, of every query, of the
\* writes to a register, the register file and memory, and of the steps
InitFrame ==
    /\ Init
    /\ Len(trace) \in {1, 2}

FrameQueries == QueryPackets \cup { <<"g">> }

FrameWrites ==
    WritePackets \cup { <<"G">> \o RegFile, <<"G">> \o Zero16 }

FrameExecs ==
    { <<"s">>, <<"c">>, <<"b","s">>, <<"b","c">>, <<"v","C","o","n","t",";","s">> }

FrameTurn(cmd) ==
    /\ received < MaxFrameTurns
    /\ handle_client(1, Framed(cmd))
    /\ UNCHANGED <<alone, thread>>

FrameQuery == \E cmd \in FrameQueries : FrameTurn(cmd)
FrameWrite == \E cmd \in FrameWrites : FrameTurn(cmd)
FrameExec == \E cmd \in FrameExecs : FrameTurn(cmd)

NextFrame ==
    \/ start
    \/ FrameQuery
    \/ FrameWrite
    \/ FrameExec

SpecFrame == InitFrame /\ [][NextFrame]_vars

----------------------------------------------------------------------------
(* Properties *)

\* the CPU state after records i..n were applied once each, in order, to
\* the CPU state given; the replay ends at a record on which update() raises
RECURSIVE Replayed(_, _, _, _)
Replayed(regs, mem, i, n) ==
    LET applied(u) ==
            IF u.exc THEN [registers |-> u.registers, memory |-> u.memory]
            ELSE Replayed(u.registers, u.memory, i + 1, n)
    IN  IF i > n THEN [registers |-> regs, memory |-> mem]
        ELSE applied(update(regs, mem, trace[i]))

\* two memories read alike at every address
SameReads(mem1, mem2) ==
    \A a \in (DOMAIN mem1) \cup (DOMAIN mem2) : mem_byte(mem1, a) = mem_byte(mem2, a)

\* the step now taken is a turn of handle_client that calls handle_command
Dispatched ==
    /\ received' = received + 1
    /\ checksum_ok'
    /\ command' \notin {None, <<>>}

\* the step now taken is handle_client handling a payload of this branch
Handled(branch) == Dispatched /\ dispatch(command') = branch

\* C1 (Reversibility, P1): in a session without debugger writes the PC, the
\* registers and every memory read depend on trace_idx only: they are those
\* of the state reached by applying records 0..trace_idx-1 once, in order.
C1_Reversibility ==
    LET direct == Replayed(InitRegisters, <<>>, 1, trace_idx)
    IN  /\ registers = direct.registers
        /\ SameReads(memory, direct.memory)

\* C2 (single-step undo): for every CPU state and every trace record,
\* update() with the record and then update() with the reverse delta it
\* returned restores the PC, every register and every memory read.
C2_SingleStepUndo ==
    \A i \in 1..Len(trace) :
        LET fwd == update(registers, memory, trace[i])
            back == update(fwd.registers, fwd.memory, fwd.rev)
        IN  /\ back.registers = registers
            /\ SameReads(back.memory, memory)

\* C3 (memory round trip): after M<a>,<n>:<d> replied OK, and after a step
\* over a record whose last memory write is (a, d), m<a>,<n> returns d.
C3_MemoryRoundTrip ==
    [][ /\ Handled("M") /\ response' = OK =>
            LET match == HexFields(command', 2, <<",", ":">>, <<>>)
            IN  get_mem(memory', match.groups[1], hexstr_to_int(match.groups[2]))
                    = match.groups[3]
        /\ Handled("s") /\ trace_idx' = trace_idx + 1
                        /\ "mw" \in DOMAIN trace[trace_idx'] =>
            LET mw == trace[trace_idx']["mw"]
                last == mw[Len(mw)]
            IN  get_mem(memory', last[1], Len(last[2]) \div 2) = last[2]
      ]_vars

\* the digits of s in lower case
LowerHex(s) == Tuple([k \in 1..Len(s) |-> HexLower[HexVal(s[k]) + 1]])

P5 == <<"P","5","=">> \o <<"e","f","c","d","a","b","8","9","6","7","4","5","2","3","0","1">>

\* C4 (Register echo, P4): after P<i>=<d>, i < NUM_REGISTERS and d of 16
\* hex digits, p<i> replies the 16 digits of d and every register other
\* than i holds what it held before.
C4_RegisterEcho ==
    [][ Handled("P") /\ response' = OK =>
            \A match \in {HexFields(command', 2, <<"=">>, <<>>)} :
            \A i \in {hexstr_to_int(match.groups[1])} :
                LET d == match.groups[2]
                    after == [State EXCEPT !.registers = registers']
                IN  i < NUM_REGISTERS /\ Len(d) = 16 =>
                        /\ handle_command(after, <<"p">> \o match.groups[1]).reply = LowerHex(d)
                        /\ \A j \in 0..(NUM_REGISTERS - 1) :
                               j # i => registers'[j] = registers[j]
      ]_vars

\* P5=efcdab8967452301 was handled: x5 holds 0x0123456789abcdef
C4_Witness ==
    /\ command = P5
    /\ response = OK
    /\ registers[5] = <<"1","2","3","4","5","6","7","8","9","a","b","c","d","e","f">>

\* C5 (Cursor bounds, P2): trace_idx is always in [0, len(trace)], and
\* every rev_trace entry below trace_idx, the ones a reverse step reads,
\* was written by the forward step of that index.
C5_CursorBounds ==
    /\ trace_idx \in 0..Len(trace)
    /\ Len(rev_trace) = Len(trace)
    /\ \A i \in 1..trace_idx : "pc" \in DOMAIN rev_trace[i]
    /\ command \in {<<"b","s">>, <<"b","c">>} => conn = "open"

\* a reverse step went back from the second record to the first
C5_Witness ==
    /\ command = <<"b","s">>
    /\ response = S05
    /\ received = 3
    /\ trace_idx = 1
    /\ "pc" \in DOMAIN rev_trace[2]

\* C6 (boundary steps): s or vCont;s at trace_idx = len(trace), and bs at
\* trace_idx = 0, leave PC, registers, memory and trace_idx unchanged,
\* clear the running flag and reply W00.
C6_BoundarySteps ==
    [][ \/ (Handled("s") \/ (Handled("vCont") /\ command' = <<"v","C","o","n","t",";","s">>))
           /\ trace_idx = Len(trace)
        \/ Handled("bs") /\ trace_idx = 0
        => /\ registers' = registers
           /\ memory' = memory
           /\ trace_idx' = trace_idx
           /\ running' = FALSE
           /\ response' = W00
      ]_vars

\* C7 (Breakpoint arrival, P7): c at trace_idx = k < len(trace) executes
\* at least one step and stops with trace_idx = j, the smallest j > k such
\* that trace[j-1].pc is in the breakpoint set; when there is no such j it
\* stops with trace_idx = len(trace).
C7_BreakpointArrival ==
    [][ Handled("c") /\ trace_idx < Len(trace) =>
            LET hits == {j \in (trace_idx + 1)..Len(trace) :
                            trace[j]["pc"] \in breakpoints}
            IN  /\ trace_idx' > trace_idx
                /\ IF hits = {} THEN trace_idx' = Len(trace)
                   ELSE trace_idx' \in hits /\ \A h \in hits : trace_idx' <= h
      ]_vars

\* C8 (stop reason of continue): c replies S05 and leaves the running flag
\* set exactly when it stopped because a step of it arrived at a PC in the
\* breakpoint set, the last record included; otherwise it replies W00 with
\* trace_idx = len(trace) and the running flag cleared.
C8_StopReason ==
    [][ Handled("c") =>
            IF trace_idx' > trace_idx /\ pc(registers') \in breakpoints
            THEN response' = S05 /\ running'
            ELSE response' = W00 /\ trace_idx' = Len(trace) /\ ~running'
      ]_vars

\* C9 (single step): s at trace_idx < len(trace) applies the record
\* trace[trace_idx] and nothing else (the PC is the record's pc, general
\* register k holds the value of the item "x<k>" of rw, memory the bytes of
\* the items of mw, the rest is as before), advances trace_idx by 1 and
\* replies S05 whatever the breakpoint set, which it leaves unchanged.
C9_SingleStep ==
    [][ Handled("s") /\ trace_idx < Len(trace) =>
            LET entry == trace[trace_idx + 1]
                rw == IF "rw" \in DOMAIN entry THEN entry["rw"] ELSE <<>>
                mw == IF "mw" \in DOMAIN entry THEN entry["mw"] ELSE <<>>
                last(items) == CHOOSE k \in items : \A j \in items : j <= k
                \* the items of rw that name general register j
                names(j) == {k \in 1..Len(rw) : rw[k][1] = X(j)}
                \* the items of mw that write address a, and the byte that
                \* item k writes there: the pair of digits of that offset
                addr(k) == HexToNat(mw[k][1])
                covers(a) == {k \in 1..Len(mw) :
                                 addr(k) <= a /\ a < addr(k) + Len(mw[k][2]) \div 2}
                byte(k, a) == HexToNat(SubSeq(mw[k][2], 2 * (a - addr(k)) + 1,
                                              2 * (a - addr(k)) + 2))
            IN  /\ trace_idx' = trace_idx + 1
                /\ response' = S05
                /\ breakpoints' = breakpoints
                /\ pc(registers') = entry["pc"]
                /\ \A j \in 0..(PC_REG - 1) :
                       registers'[j] = IF names(j) = {} THEN registers[j]
                                       ELSE rw[last(names(j))][2]
                /\ \A a \in (DOMAIN memory) \cup (DOMAIN memory') :
                       mem_byte(memory', a) = IF covers(a) = {} THEN mem_byte(memory, a)
                                              ELSE byte(last(covers(a)), a)
      ]_vars

\* C10 (session end): once the running flag is cleared no later packet is
\* handed to handle_command, and PC, registers, memory and trace_idx do not
\* change any more.
C10_SessionEnd ==
    [][ ~running =>
            /\ ~Dispatched
            /\ registers' = registers
            /\ memory' = memory
            /\ trace_idx' = trace_idx
      ]_vars

\* C11 (ack then reply): a packet with a valid checksum and a payload that
\* is not empty is dispatched once, and the turn writes "+" and then the one
\* frame "$<reply>#<cc>" of the reply to that payload; when handle_command
\* raises, the turn writes "+" only and the connection is closed.
C11_AckThenReply ==
    [][ Dispatched =>
            \A r \in {handle_command(State, command')} :
                IF r.exc
                THEN sent' = << <<"+">> >> /\ client' \notin clients'
                ELSE /\ response' = r.reply
                     /\ sent' = << <<"+">>, Framed(r.reply) >>
                     /\ client' \in clients'
      ]_vars

\* C11 as stated: every such packet is answered with "+" and one frame
C11_AckThenReplyAlways ==
    [][ Dispatched =>
            /\ Len(sent') = 2
            /\ sent'[1] = <<"+">>
            /\ sent'[2] = Framed(response')
      ]_vars

\* qFoo was acknowledged and answered with the empty packet
C11_Witness ==
    /\ command = <<"q","F","o","o">>
    /\ checksum_ok
    /\ sent = << <<"+">>, <<"$","#","0","0">> >>

\* "$", a payload without "$" and "#", "#" and two checksum bytes that
\* int(.., 16) reads: two digits, or one digit and a sign or a blank
WellFramed(bytes) ==
    /\ Len(bytes) >= 4
    /\ bytes[1] = "$"
    /\ bytes[Len(bytes) - 2] = "#"
    /\ IsHexStr(SubSeq(bytes, Len(bytes) - 1, Len(bytes)))
    /\ \A k \in 2..(Len(bytes) - 3) : bytes[k] \notin {"$", "#"}

WirePayload(bytes) == SubSeq(bytes, 2, Len(bytes) - 3)

\* the value of the checksum bytes differs from the sum of the payload
\* modulo 256
ChecksumFails(bytes) ==
    /\ WellFramed(bytes)
    /\ hexstr_to_int(SubSeq(bytes, Len(bytes) - 1, Len(bytes)))
           # SumFrom(WirePayload(bytes), 1) % 256

\* C12 (checksum failure): a packet whose checksum digits differ from the
\* sum of the payload modulo 256 is answered with "-" alone, is not
\* dispatched (CPU state, cursor, breakpoints and running flag are
\* unchanged), and the loop goes on to read the next packet.
C12_ChecksumFailure ==
    [][ received' = received + 1 /\ ChecksumFails(stream') =>
            /\ sent' = << <<"-">> >>
            /\ UNCHANGED cpu_vars
            /\ client' \in clients'
            /\ conn' = conn
      ]_vars

\* the payload holds none of the characters that delimit a frame
NoFrameChars(data) == \A k \in 1..Len(data) : data[k] \notin {"$", "#"}

\* C13 (Checksum law, P6): for a payload s without "$" and "#", what
\* _send_packet writes for s is read by _recv_packet as (s, checksum valid).
\* For any s, the payload read ends before the first "#" of s and starts
\* after the last "$" before that.  When s holds no "#", the checksum is
\* reported valid exactly when the bytes of s up to and including its last
\* "$" sum to a multiple of 256.  When s holds a "#", the two bytes after
\* the first one are taken for the checksum: ValueError when int(.., 16)
\* rejects them, else valid exactly when their value is the sum of the
\* payload read.
C13_ChecksumLaw ==
    sent # <<>> =>
        LET s == response
            hashes == {k \in 1..Len(s) : s[k] = "#"}
            first == CHOOSE k \in hashes : \A j \in hashes : k <= j
            read == IF hashes = {} THEN s ELSE SubSeq(s, 1, first - 1)
            dollars == {k \in 1..Len(read) : read[k] = "$"}
            dropped == IF dollars = {} THEN 0
                       ELSE CHOOSE k \in dollars : \A j \in dollars : j <= k
            kept == SubSeq(read, dropped + 1, Len(read))
            rx == SubSeq(sent[1], first + 2, first + 3)
        IN  /\ NoFrameChars(s) => command = s /\ checksum_ok
            /\ hashes = {} =>
                   /\ command = kept
                   /\ checksum_ok <=> SumRange(s, 1, dropped) % 256 = 0
            /\ hashes # {} =>
                   IF IsHexStr(rx)
                   THEN /\ command = kept
                        /\ checksum_ok <=> hexstr_to_int(rx) = SumFrom(kept, 1) % 256
                   ELSE command = None /\ ~checksum_ok

\* C13 as stated: the same for every payload s
C13_ChecksumLawAny ==
    sent # <<>> => command = response /\ checksum_ok

\* a payload whose sum of bytes exceeds 255 went through the framer
C13_Witness ==
    /\ response = <<"~","~","~">>
    /\ sent = << <<"$","~","~","~","#","7","a">> >>
    /\ command = response
    /\ checksum_ok


\* the payloads that reach the final return of handle_command: no test of
\* the chain selects a branch, the regular expression of the branch does not
\* match, or the operation of "H" is neither c nor g
FallsThrough(cmd) ==
    \/ dispatch(cmd) = "unknown"
    \/ dispatch(cmd) = "p" /\ ~HexFields(cmd, 2, <<>>, <<>>).ok
    \/ dispatch(cmd) = "P" /\ ~HexFields(cmd, 2, <<"=">>, <<>>).ok
    \/ dispatch(cmd) = "m" /\ ~HexFields(cmd, 2, <<",">>, <<>>).ok
    \/ dispatch(cmd) = "M" /\ ~HexFields(cmd, 2, <<",", ":">>, <<>>).ok
    \/ dispatch(cmd) \in {"Z", "z"} /\ ~BreakFields(cmd).ok
    \/ dispatch(cmd) = "H" /\ Len(cmd) >= 2 /\ cmd[2] \notin {"c", "g"}

\* the payloads of "H" and "G" whose arguments the branch cannot convert:
\* command[1] of "H", int() of a thread id, and of a register group the
\* assertion of swap_endianess or int(.., 16) of the swapped group
ArgumentsRaise(cmd) ==
    \/ /\ dispatch(cmd) = "H"
       /\ \/ Len(cmd) < 2
          \/ cmd[2] \in {"c", "g"} /\ ~IsDecimal(Slice(cmd, 2, Len(cmd)))
    \/ /\ dispatch(cmd) = "G"
       /\ \E i \in 0..(NUM_REGISTERS - 1) :
              \E group \in {Slice(Tail(cmd), i * 16, (i + 1) * 16)} :
                  ~SwapOk(group) \/ ~IsHexStr(swap_endianess(group))

\* what the turn of an unknown command leaves behind: "+", the empty
\* packet, and the CPU state, the cursor, the breakpoints, the thread ids,
\* the running flag and the connection as they were
EmptyReply ==
    /\ sent' = << <<"+">>, <<"$","#","0","0">> >>
    /\ response' = <<>>
    /\ UNCHANGED cpu_vars
    /\ UNCHANGED <<conn, clients>>

\* C14 (unknown command): a payload that reaches the final return of
\* handle_command (no supported command matches it, the fields of p, P, m,
\* M, Z or z do not match, or H names an operation other than c and g) is
\* acknowledged with "+", answered with the empty packet "$#00", and leaves
\* PC, registers, memory, trace_idx, breakpoints, thread ids and the running
\* flag unchanged.
C14_UnknownCommand ==
    [][ Dispatched /\ FallsThrough(command') => EmptyReply ]_vars

\* C14 as stated: the same for every supported prefix whose arguments fail
\* to parse, the thread id of "Hc" and the register groups of "G" included.
C14_UnknownCommandAny ==
    [][ Dispatched /\ (FallsThrough(command') \/ ArgumentsRaise(command'))
            => EmptyReply ]_vars

C14_Witness ==
    /\ command = <<"Z">>
    /\ checksum_ok
    /\ sent = << <<"+">>, <<"$","#","0","0">> >>
    /\ breakpoints # {}
    /\ 1 \in clients

\* C15 (multi-client isolation): with ALLOW_MULTIPLE_CONNECTIONS, whatever
\* the interleaving of the clients' threads, the reply that ends a turn of
\* a client and the CPU state, cursor, reverse deltas and breakpoints it
\* leaves are those of a server that serves this client alone, and
\* trace_idx stays within 0 .. len(trace).
C15_Isolation ==
    [][ /\ trace_idx' \in 0..Len(trace')
        /\ ( /\ client' \in DOMAIN thread
             /\ thread'[client'].at = "recv"
             /\ thread[client'].at # "recv" \/ Dispatched
             /\ response' # None )
           => \E r \in {handle_command(alone[client'], command')} :
                  /\ response' = r.reply
                  /\ registers' = r.st.registers
                  /\ memory' = r.st.memory
                  /\ trace_idx' = r.st.trace_idx
                  /\ rev_trace' = r.st.rev_trace
                  /\ breakpoints' = r.st.breakpoints
      ]_vars

\* C16 (register-file encoding width): every stored register value is
\* within 0 .. 2^64-1, the reply to "p<n>" is exactly 16 hex digits and the
\* reply to "g" exactly NUM_REGISTERS * 16.
C16_RegisterWidth ==
    /\ \A i \in 0..(NUM_REGISTERS - 1) :
           Len(registers[i]) <= 16 /\ "-" \notin {registers[i][k] : k \in 1..Len(registers[i])}
    /\ checksum_ok /\ response # None
           /\ dispatch(command) = "p" /\ HexFields(command, 2, <<>>, <<>>).ok
           => Len(response) = 16
    /\ checksum_ok /\ response # None /\ command = <<"g">>
           => Len(response) = 16 * NUM_REGISTERS

\* the action types of a vCont payload that are run, in the order written
VContTypes(cmd) ==
    LET actions == Split(Slice(cmd, 6, Len(cmd)), ";")
    IN  SelectSeq([k \in 1..Len(actions) |-> Split(actions[k], ":")[1]],
                  LAMBDA action_type : action_type \in {<<"c">>, <<"s">>})

\* the packets "c" and "s" named by types handled one after the other, each
\* on the state the one before left, up to and including the first that
\* raises; the reply of the last one
RECURSIVE RunInOrder(_, _, _)
RunInOrder(st, types, resp) ==
    LET after(r) == IF r.exc THEN r ELSE RunInOrder(r.st, Tail(types), r.reply)
    IN  IF types = <<>> THEN Ret(st, resp)
        ELSE after(handle_command(st, Head(types)))

\* C17 (vCont batching): a vCont packet runs its c and s actions from left
\* to right, each on the state the one before left, and its one reply is
\* the reply, S05 or W00, of the last of them.
C17_VContBatching ==
    [][ Handled("vCont") /\ command' # <<"v","C","o","n","t","?">> =>
            \E types \in {VContTypes(command')} :
            \E r \in {RunInOrder(State, types, OK)} :
                /\ ~r.exc
                /\ response' = r.reply
                /\ types # <<>> => response' \in {S05, W00}
                /\ sent' = << <<"+">>, _send_packet(r.reply) >>
                /\ registers' = r.st.registers
                /\ memory' = r.st.memory
                /\ running' = r.st.running
                /\ trace_idx' = r.st.trace_idx
                /\ rev_trace' = r.st.rev_trace
                /\ breakpoints' = r.st.breakpoints
      ]_vars

\* the register number of a "p" or "P" payload is beyond the register file
OutOfRange(cmd, seps) ==
    \E match \in {HexFields(cmd, 2, seps, <<>>)} :
        /\ match.ok
        /\ hexstr_to_int(match.groups[1]) >= NUM_REGISTERS

\* the value of a "P" payload has an even number of digits
EvenValue(cmd) ==
    \E match \in {HexFields(cmd, 2, <<"=">>, <<>>)} :
        match.ok /\ Len(match.groups[2]) % 2 = 0

\* the reply is sent, nothing of the CPU or the replay changes, and the
\* connection stays open
Tolerated(reply) ==
    /\ response' = reply
    /\ sent' = << <<"+">>, _send_packet(reply) >>
    /\ UNCHANGED cpu_vars
    /\ UNCHANGED <<conn, clients>>

\* C18 (out-of-range register index): for n >= NUM_REGISTERS, "p<n>"
\* replies sixteen 0 digits and "P<n>=<hex>" with an even number of hex
\* digits replies OK; the register file, memory and trace_idx are unchanged
\* and the session continues.
C18_OutOfRangeRegister ==
    [][ /\ Handled("p") /\ OutOfRange(command', <<>>) => Tolerated(Zero16)
        /\ Handled("P") /\ OutOfRange(command', <<"=">>) /\ EvenValue(command')
               => Tolerated(OK)
      ]_vars

\* C18 as stated: "P<n>=<hex>" replies OK whatever the hex digits are.
C18_OutOfRangeRegisterAny ==
    [][ /\ Handled("p") /\ OutOfRange(command', <<>>) => Tolerated(Zero16)
        /\ Handled("P") /\ OutOfRange(command', <<"=">>) => Tolerated(OK)
      ]_vars

\* a write to register 0x21 was dropped after the first record was replayed
C18_Witness ==
    /\ dispatch(command) = "P"
    /\ OutOfRange(command, <<"=">>)
    /\ EvenValue(command)
    /\ checksum_ok
    /\ response = OK
    /\ trace_idx = 1
    /\ 1 \in clients

\* the addresses in a breakpoint set, as numbers
Addresses(bps) == {HexToNat(b) : b \in bps}

\* the address that a Z or z payload names, whatever its type and kind
Named(cmd) == hexstr_to_int(BreakFields(cmd).groups[2])

\* C19 (breakpoint set): a Z packet adds the address it names to the set
\* and a z packet removes it, whatever the type and kind fields are, and
\* both reply OK; a Z for an address in the set and a z for one not in it
\* leave the set as it was; nothing else changes the set.  So an address is
\* in the set iff the last Z or z packet that named it was a Z.
C19_BreakpointSet ==
    [][ /\ Handled("Z") /\ BreakFields(command').ok =>
               /\ response' = OK
               /\ Addresses(breakpoints') = Addresses(breakpoints) \cup {Named(command')}
               /\ Named(command') \in Addresses(breakpoints) => breakpoints' = breakpoints
        /\ Handled("z") /\ BreakFields(command').ok =>
               /\ response' = OK
               /\ Addresses(breakpoints') = Addresses(breakpoints) \ {Named(command')}
               /\ Named(command') \notin Addresses(breakpoints) => breakpoints' = breakpoints
        /\ ~(Dispatched /\ dispatch(command') \in {"Z", "z"} /\ BreakFields(command').ok)
               => breakpoints' = breakpoints
        /\ Cardinality(Addresses(breakpoints')) = Cardinality(breakpoints')
      ]_vars

\* 0x1004 and 0x1008 were inserted, then "z1,01004,2" removed 0x1004, which
\* "Z0,1004,4" had inserted
C19_Witness ==
    /\ command = <<"z","1",",","0","1","0","0","4",",","2">>
    /\ checksum_ok
    /\ response = OK
    /\ received = 3
    /\ Addresses(breakpoints) = {hexstr_to_int(<<"1","0","0","8">>)}

\* c is handled while the PC is on a breakpoint and records are left
ContOnBreakpoint ==
    /\ Handled("c")
    /\ pc(registers) \in breakpoints
    /\ trace_idx < Len(trace)

\* C20 (breakpoint on the current PC): c issued while the PC is on a
\* breakpoint b, with records left, replies S05 only after it replayed a
\* record.  When update() returns for the next record and leaves the PC on
\* a breakpoint, b included, c stops there with S05 after that one step;
\* when it leaves the PC on none, c does not stop there; when it raises, c
\* sends no reply after the "+" and the connection is closed.
C20_BreakpointOnCurrentPc ==
    [][ ContOnBreakpoint =>
            \A u \in {update(registers, memory, trace[trace_idx + 1])} :
                /\ response' = S05 => trace_idx' >= trace_idx + 1
                /\ ~u.exc /\ pc(u.registers) \in breakpoints =>
                       /\ trace_idx' = trace_idx + 1
                       /\ response' = S05
                       /\ pc(registers') = pc(u.registers)
                /\ ~u.exc /\ pc(u.registers) \notin breakpoints =>
                       ~(trace_idx' = trace_idx + 1 /\ response' = S05)
                /\ u.exc =>
                       /\ response' = None
                       /\ trace_idx' = trace_idx
                       /\ sent' = << <<"+">> >>
                       /\ conn' = "closed"
      ]_vars

\* C20 as stated: c issued while the PC is on the breakpoint b stops at b
\* only after one of its steps set the PC to a value other than b.
C20_LeavesAndReturns ==
    [][ ContOnBreakpoint /\ response' = S05 /\ pc(registers') = pc(registers) =>
            \E j \in (trace_idx + 1)..(trace_idx' - 1) :
                trace[j]["pc"] # pc(registers)
      ]_vars

\* c was the third packet, sent with the PC on the breakpoint; it replayed
\* the one record that arrives at the same pc again and stopped there
C20_Witness ==
    /\ command = <<"c">>
    /\ checksum_ok
    /\ received = 3
    /\ response = S05
    /\ trace_idx = 2
    /\ trace[1]["pc"] = trace[2]["pc"]
    /\ trace[2]["pc"] \in breakpoints
    /\ pc(registers) = trace[2]["pc"]
    /\ running

\* C21 (reverse continue): bc at trace_idx = k > 0 takes at least one
\* reverse step and stops with S05 and the running flag set at the largest
\* j < k whose restored PC (the initial PC for j = 0, else the pc of record
\* j-1) is a breakpoint; when there is none it ends at trace_idx = 0 in the
\* initial CPU state with W00 and the flag cleared.
C21_ReverseCont ==
    [][ Handled("bc") /\ trace_idx > 0 =>
            LET PcAt(j) == IF j = 0 THEN InitPc ELSE trace[j]["pc"]
                hits == {j \in 0..(trace_idx - 1) : PcAt(j) \in breakpoints}
            IN  /\ trace_idx' < trace_idx
                /\ hits # {} =>
                       /\ trace_idx' \in hits
                       /\ \A h \in hits : h <= trace_idx'
                       /\ pc(registers') = PcAt(trace_idx')
                       /\ response' = S05
                       /\ running'
                /\ hits = {} =>
                       /\ trace_idx' = 0
                       /\ registers' = InitRegisters
                       /\ SameReads(memory', <<>>)
                       /\ response' = W00
                       /\ ~running'
      ]_vars

\* the reverse entry d is the one update() returns for record e in the
\* current CPU state: the PC as it is, and for every item of rw whose name
\* starts with "x" and every item of mw, in order, the value that the write
\* replaces.  That is the value the slot, or the byte, holds now, unless the
\* record has changed it by then: an earlier item wrote the same slot of
\* the register list or the same address, or the slot is the PC's, which
\* holds the record's pc.
SavesCurrent(d, e) ==
    LET rw == IF "rw" \in DOMAIN e
              THEN SelectSeq(e["rw"], LAMBDA item : StartsWith(item[1], <<"x">>))
              ELSE <<>>
        mw == IF "mw" \in DOMAIN e THEN e["mw"] ELSE <<>>
        last(items) == CHOOSE k \in items : \A j \in items : j <= k
        slot(k) == DecToInt(Tail(rw[k][1])) % NUM_REGISTERS
        written(k) == {j \in 1..(k - 1) : slot(j) = slot(k)}
        replaced(k) == IF written(k) # {} THEN rw[last(written(k))][2]
                       ELSE IF slot(k) = PC_REG THEN e["pc"]
                       ELSE registers[slot(k)]
        addr(k) == hexstr_to_int(mw[k][1])
        stored(k, a) == {j \in 1..(k - 1) :
                            addr(j) <= a /\ a < addr(j) + Len(mw[j][2]) \div 2}
        byte(j, a) == hexstr_to_int(Slice(mw[j][2], a - addr(j), a - addr(j) + 2))
        read(k, a) == IF stored(k, a) # {} THEN byte(last(stored(k, a)), a)
                      ELSE mem_byte(memory, a)
    IN  /\ DOMAIN d = (DOMAIN e) \cap {"pc", "rw", "mw"}
        /\ d["pc"] = pc(registers)
        /\ "rw" \in DOMAIN e =>
               d["rw"] = [k \in 1..Len(rw) |-> <<rw[k][1], replaced(k)>>]
        /\ "mw" \in DOMAIN e =>
               d["mw"] = [k \in 1..Len(mw) |->
                             <<mw[k][1],
                               FormatBytes([o \in 1..(Len(mw[k][2]) \div 2) |->
                                               read(k, addr(k) + o - 1)])>>]
    /\ rev_trace[1]["rw"][1][2] # <<>>

\* C23 (continue terminates): c at trace_idx = k completes after at most
\* len(trace) - k forward steps and bc after at most k reverse steps, and
\* each produces exactly one reply.
C23_ContTerminates ==
    [][ /\ Handled("c") =>
               /\ trace_idx' \in trace_idx..Len(trace)
               /\ response' \in {S05, W00}
               /\ sent' = << <<"+">>, _send_packet(response') >>
        /\ Handled("bc") =>
               /\ trace_idx' \in 0..trace_idx
               /\ response' \in {S05, W00}
               /\ sent' = << <<"+">>, _send_packet(response') >>
      ]_vars

\* C24 (the trace is immutable): no turn of handle_client changes the
\* length of the trace or a field of a record, whatever the command, and
\* rev_trace is always as long as the trace.
C24_TraceImmutable ==
    [][ /\ Len(trace') = Len(trace)
        /\ \A i \in 1..Len(trace) :
               /\ DOMAIN trace'[i] = DOMAIN trace[i]
               /\ \A key \in DOMAIN trace[i] : trace'[i][key] = trace[i][key]
        /\ Len(rev_trace') = Len(trace')
      ]_vars

\* a record with register writes was replayed and then undone through the
\* same update(), after which the debugger wrote memory
C24_Witness ==
    /\ dispatch(command) = "M"
    /\ response = OK
    /\ received = 3
    /\ trace_idx = 0
    /\ Len(trace) >= 1
    /\ "rw" \in DOMAIN trace[1]
    /\ "rw" \in DOMAIN rev_trace[1]
    /\ memory # <<>>

\* the payloads that only ask
IsQuery(cmd) ==
    \/ dispatch(cmd) \in {"g", "p", "m", "?", "qC", "qSupported", "qAttached",
                          "qSymbol", "vMustReplyEmpty"}
    \/ cmd = <<"v","C","o","n","t","?">>

\* the payloads that replay the trace
IsExec(cmd) ==
    /\ dispatch(cmd) \in {"s", "c", "bs", "bc", "vCont"}
    /\ cmd # <<"v","C","o","n","t","?">>

\* C25 (frame of non-execution commands): only s, c, bs, bc and vCont
\* actions change trace_idx or rev_trace; P changes at most the register it
\* names, G registers only, M at most the memory bytes it addresses; the
\* queries change nothing, and an m read creates no memory entry.
C25_Frame ==
    [][ /\ (trace_idx' # trace_idx \/ rev_trace' # rev_trace) =>
               Dispatched /\ IsExec(command')
        /\ Handled("P") =>
               /\ UNCHANGED <<trace, rev_trace, trace_idx, breakpoints, cont_thread,
                              state_query_thread, memory, running>>
               /\ \A i \in 0..(NUM_REGISTERS - 1) :
                      registers'[i] # registers[i] =>
                          /\ HexFields(command', 2, <<"=">>, <<>>).ok
                          /\ i = hexstr_to_int(HexFields(command', 2, <<"=">>, <<>>).groups[1])
        /\ Handled("G") =>
               /\ UNCHANGED <<trace, rev_trace, trace_idx, breakpoints, cont_thread,
                              state_query_thread, memory, running>>
               /\ DOMAIN registers' = DOMAIN registers
        /\ Handled("M") =>
               /\ UNCHANGED <<trace, rev_trace, trace_idx, breakpoints, cont_thread,
                              state_query_thread, registers, running>>
               /\ DOMAIN memory \subseteq DOMAIN memory'
               /\ \A a \in {b \in DOMAIN memory' :
                               b \notin DOMAIN memory \/ memory'[b] # memory[b]} :
                      \E match \in {HexFields(command', 2, <<",", ":">>, <<>>)} :
                          /\ match.ok
                          /\ a >= hexstr_to_int(match.groups[1])
                          /\ a < hexstr_to_int(match.groups[1])
                                     + hexstr_to_int(match.groups[2])
        /\ Dispatched /\ IsQuery(command') =>
               /\ UNCHANGED <<trace, cpu_vars>>
               /\ DOMAIN memory' = DOMAIN memory
      ]_vars

\* after a step back to the start and a write to x5, "m10,2" read two addresses never written: the
\* sentinel bytes are replied and memory has no entry
C25_Witness ==
    /\ command = <<"m","1","0",",","2">>
    /\ received = 3
    /\ response = <<"c","a","c","a">>
    /\ memory = <<>>
    /\ registers[5] # <<>>
    /\ trace_idx = 0

\* C26 (empty payload): a packet with an empty payload and the checksum 00
\* is acknowledged with "+", answered (with the empty packet, as an unknown
\* command is) and the loop of handle_client goes on.
C26_EmptyPayload ==
    [][ received' = received + 1 /\ stream' = <<"$","#","0","0">> =>
            /\ sent' = << <<"+">>, <<"$","#","0","0">> >>
            /\ client' \in clients'
            /\ UNCHANGED <<conn, clients>>
      ]_vars

====
